---- MODULE Spec2Model ----
(***************************************************************************)
(* Model of the SLT content-consistency analysers (src/Discrepancy.py and  *)
(* src/slt_contradiction_detector.py).                                     *)
(*                                                                         *)
(* Texts are sequences of characters; a character is a one-letter string,  *)
(* except that code points outside ASCII are written by their code point   *)
(* ("U0DBB" is SINHALA LETTER RAYANNA).  Prices are kept in hundredths of  *)
(* a rupee so that the two decimals the price grammar allows are exact.    *)
(***************************************************************************)
EXTENDS Integers, Sequences, FiniteSets, TLC

VARIABLES
    data,             \* self.data: the loaded pages, in the order of the JSON object
    inconsistencies,  \* self.inconsistencies: five lists of discrepancy records
    raised,           \* name of the exception that left the last call, or "none"
    calls,            \* number of analysis calls made on this analyzer instance
    trace,            \* what the last analysis call computed in its local variables
    sample,           \* how the text under study was put together
    text,             \* the argument of the text function under study
    result,           \* what the last text function returned
    pages_content,    \* SLTWebsiteCrawler.pages_content: the pages merged so far
    futures,          \* the state of the future submitted for each URL of a crawl
    contradictions    \* SLTWebsiteCrawler.contradictions

vars == <<data, inconsistencies, raised, calls, trace, sample, text, result,
          pages_content, futures, contradictions>>

(***************************************************************************)
(* Characters                                                              *)
(***************************************************************************)
LowerSeq == <<"a","b","c","d","e","f","g","h","i","j","k","l","m",
              "n","o","p","q","r","s","t","u","v","w","x","y","z">>
UpperSeq == <<"A","B","C","D","E","F","G","H","I","J","K","L","M",
              "N","O","P","Q","R","S","T","U","V","W","X","Y","Z">>
DigitSeq == <<"0","1","2","3","4","5","6","7","8","9">>

AsciiLower == {LowerSeq[i] : i \in DOMAIN LowerSeq}
AsciiUpper == {UpperSeq[i] : i \in DOMAIN UpperSeq}
Digits     == {DigitSeq[i] : i \in DOMAIN DigitSeq}

\* Code points of the Sinhala block U+0D80..U+0DFF that the texts use:
\* RAYANNA, VOWEL SIGN KETTI PAPILLA, ALPAPRAANA KAYANNA.
SinhalaChars == {"U0DBB", "U0DD4", "U0D9A"}
\* A letter that is neither ASCII nor Sinhala (LATIN SMALL LETTER E WITH ACUTE).
OtherLetters == {"U00E9"}
Whitespace   == {" ", "\n", "\t"}

\* the lower-case letter of each ASCII capital, and the value of each digit
LowerMap == [A |-> "a", B |-> "b", C |-> "c", D |-> "d", E |-> "e", F |-> "f", G |-> "g",
             H |-> "h", I |-> "i", J |-> "j", K |-> "k", L |-> "l", M |-> "m", N |-> "n",
             O |-> "o", P |-> "p", Q |-> "q", R |-> "r", S |-> "s", T |-> "t", U |-> "u",
             V |-> "v", W |-> "w", X |-> "x", Y |-> "y", Z |-> "z"]
DigitMap == [c \in Digits |-> (CHOOSE i \in 1..10 : DigitSeq[i] = c) - 1]

\* str.lower() on one character: only the ASCII capitals have a lower-case
\* form among the characters of the texts
LowerChar(c) == (LowerMap @@ (c :> c))[c]
\* str.lower()
Lower(t) == [i \in DOMAIN t |-> LowerChar(t[i])]

IsDigit(c) == c \in Digits
IsSpace(c) == c \in Whitespace
\* '\u0D80' <= char <= '\u0DFF'
IsSinhala(c) == c \in SinhalaChars
\* char.isalpha() and ord(char) < 128   (also: char.isalpha() and char.isascii())
AsciiLetters == AsciiLower \cup AsciiUpper
IsAsciiAlpha(c) == c \in AsciiLetters

\* text[a:b] with 0-based a, b as in Python, for 0 <= a <= b <= len(text)
Slice(t, a, b) == SubSeq(t, a + 1, b)

RECURSIVE LStrip(_)
LStrip(t) == IF t # <<>> /\ IsSpace(Head(t)) THEN LStrip(Tail(t)) ELSE t
RECURSIVE RStrip(_)
RStrip(t) == IF t # <<>> /\ IsSpace(t[Len(t)]) THEN RStrip(SubSeq(t, 1, Len(t) - 1)) ELSE t
\* str.strip()
Strip(t) == RStrip(LStrip(t))

\* sum(1 for char in text if P(char))
RECURSIVE CountChars(_, _)
CountChars(t, S) ==
    IF t = <<>> THEN 0
    ELSE (IF Head(t) \in S THEN 1 ELSE 0) + CountChars(Tail(t), S)

\* text.replace(' ', ''): only U+0020 is removed
RECURSIVE RemoveSpaces(_)
RemoveSpaces(t) ==
    IF t = <<>> THEN <<>>
    ELSE IF Head(t) = " " THEN RemoveSpaces(Tail(t))
    ELSE <<Head(t)>> \o RemoveSpaces(Tail(t))

(***************************************************************************)
(* Language classification                                                 *)
(***************************************************************************)
\* The ratios are quotients of small integers, so  x / total > 0.7  is decided
\* exactly by  10 * x > 7 * total.

\* lines 43-60 with the first threshold met at a ratio of 0.7 already
detect_language_ratios_wrong_threshold(sinhala_chars, english_chars, total_alpha_chars) ==
    IF total_alpha_chars = 0 THEN "no_text"
    ELSE IF 10 * sinhala_chars >= 7 * total_alpha_chars THEN "sinhala"
    ELSE IF 10 * english_chars > 7 * total_alpha_chars THEN "english"
    ELSE IF 10 * sinhala_chars > total_alpha_chars
            /\ 10 * english_chars > total_alpha_chars THEN "mixed"
    ELSE "other"

\* lines 43-60 with 'mixed' only when both ratios exceed 0.3
detect_language_ratios_mixed_above_three_tenths(sinhala_chars, english_chars, total_alpha_chars) ==
    IF total_alpha_chars = 0 THEN "no_text"
    ELSE IF 10 * sinhala_chars > 7 * total_alpha_chars THEN "sinhala"
    ELSE IF 10 * english_chars > 7 * total_alpha_chars THEN "english"
    ELSE IF 10 * sinhala_chars > 3 * total_alpha_chars
            /\ 10 * english_chars > 3 * total_alpha_chars THEN "mixed"
    ELSE "other"

\* lines 43-60: the verdict from the two letter counts and their sum
detect_language_ratios(sinhala_chars, english_chars, total_alpha_chars) ==
    IF total_alpha_chars = 0 THEN "no_text"
    ELSE IF 10 * sinhala_chars > 7 * total_alpha_chars THEN "sinhala"
    ELSE IF 10 * english_chars > 7 * total_alpha_chars THEN "english"
    ELSE IF 10 * sinhala_chars > total_alpha_chars
            /\ 10 * english_chars > total_alpha_chars THEN "mixed"
    ELSE "other"

\* line 43: total_alpha_chars
detect_language_counts(sinhala_chars, english_chars) ==
    detect_language_ratios(sinhala_chars, english_chars, sinhala_chars + english_chars)

\* ContentConsistencyAnalyzer.detect_language, the short-context variant
detect_language(t) ==
    IF t = <<>> \/ Strip(t) = <<>> THEN "empty"
    ELSE detect_language_counts(CountChars(t, SinhalaChars), CountChars(t, AsciiLetters))

\* lines 1025-1034 of the whole-page variant
DiscrepancyAnalyzer_detect_language_ratios(sinhala_chars, english_chars, total_chars) ==
    IF total_chars = 0 THEN "unknown"
    ELSE IF 10 * sinhala_chars > total_chars
         THEN (IF sinhala_chars > english_chars THEN "sinhala" ELSE "mixed")
    ELSE IF 2 * english_chars > total_chars THEN "english"
    ELSE "mixed"

\* DiscrepancyAnalyzer.detect_language, the whole-page variant with the ratios
\* taken over the sum of the two letter counts instead of the non-space length.
DiscrepancyAnalyzer_detect_language_over_letters(t) ==
    IF t = <<>> THEN "unknown"
    ELSE DiscrepancyAnalyzer_detect_language_ratios(
             CountChars(t, SinhalaChars), CountChars(t, AsciiLetters),
             CountChars(t, SinhalaChars) + CountChars(t, AsciiLetters))

\* DiscrepancyAnalyzer.detect_language, the whole-page variant.
DiscrepancyAnalyzer_detect_language(t) ==
    IF t = <<>> THEN "unknown"
    ELSE DiscrepancyAnalyzer_detect_language_ratios(
             CountChars(t, SinhalaChars), CountChars(t, AsciiLetters), Len(RemoveSpaces(t)))

(***************************************************************************)
(* Regular expressions of the extractors.  Offsets are 0-based as in       *)
(* Python: the character at offset i of t is t[i + 1].                      *)
(***************************************************************************)
Max(a, b) == IF a >= b THEN a ELSE b
Min(a, b) == IF a <= b THEN a ELSE b

\* \d{n} at offset i
DigitsAt(t, i, n) == i + n <= Len(t) /\ \A k \in 1..n : IsDigit(t[i + k])

\* how many times (?:,\d{3}) matches in a row from offset j
RECURSIVE MaxGroups(_, _)
MaxGroups(t, j) ==
    IF j + 4 <= Len(t) /\ t[j + 1] = "," /\ DigitsAt(t, j + 1, 3)
    THEN 1 + MaxGroups(t, j + 4) ELSE 0

\* (?:\.\d{2}) at offset j
DecimalAt(t, j) == j + 3 <= Len(t) /\ t[j + 1] = "." /\ DigitsAt(t, j + 1, 2)

\* (?:\.\d{2})? from offset e: the greedy end first, then the empty match
EndsAfterGroups(t, e) == IF DecimalAt(t, e) THEN <<e + 3, e>> ELSE <<e>>

\* (?:,\d{3})*(?:\.\d{2})? from offset j: g groups first, then fewer
RECURSIVE EndsForGroups(_, _, _)
EndsForGroups(t, j, g) ==
    EndsAfterGroups(t, j + 4 * g)
        \o (IF g = 0 THEN <<>> ELSE EndsForGroups(t, j, g - 1))

EndsForDigits(t, i, k) ==
    IF DigitsAt(t, i, k) THEN EndsForGroups(t, i + k, MaxGroups(t, i + k)) ELSE <<>>

\* The numeral pattern with the thousands groups left out: \d{1,3}(?:\.\d{2})?
NumberEnds_no_groups(t, i) ==
    LET E(k) == IF DigitsAt(t, i, k) THEN EndsAfterGroups(t, i + k) ELSE <<>>
    IN  E(3) \o E(2) \o E(1)

\* \d{1,3}(?:,\d{3})*(?:\.\d{2})? at offset i: every offset where a match can
\* end, in the order the backtracking matcher tries them (greedy first).
NumberEnds(t, i) ==
    EndsForDigits(t, i, 3) \o EndsForDigits(t, i, 2) \o EndsForDigits(t, i, 1)

\* length of the run of \s from offset j
RECURSIVE SpaceRun(_, _)
SpaceRun(t, j) == IF j < Len(t) /\ IsSpace(t[j + 1]) THEN 1 + SpaceRun(t, j + 1) ELSE 0

\* \s* from offset p: the offsets it can end at, longest run first
AfterSpaces(t, p) == [n \in 1..(SpaceRun(t, p) + 1) |-> p + SpaceRun(t, p) + 1 - n]

\* \.? from offset a
AfterOptDot(t, a) == IF a < Len(t) /\ t[a + 1] = "." THEN <<a + 1, a>> ELSE <<a>>

RECURSIVE Flatten(_)
Flatten(ss) == IF ss = <<>> THEN <<>> ELSE Head(ss) \o Flatten(Tail(ss))

\* a literal at offset j under re.IGNORECASE
LitAt(t, j, lit) ==
    j + Len(lit) <= Len(t) /\ \A k \in 1..Len(lit) : LowerChar(t[j + k]) = LowerChar(lit[k])

\* the offsets a numeral can start at after LIT\.?, in the order tried
StartsAfter(t, dots) == Flatten([k \in DOMAIN dots |-> AfterSpaces(t, dots[k])])

\* the span [gs, ge) of group 1 and the offset where the match ends, for a
\* numeral at offset q that is the last item of its pattern
NumberSpans(q, ends) == [n \in DOMAIN ends |-> [gs |-> q, ge |-> ends[n], end |-> ends[n]]]

\* every way  \s*(NUMBER)  matches from one of the starts, in the order tried
PrefixMatches(t, starts) ==
    Flatten([k \in DOMAIN starts |-> NumberSpans(starts[k], NumberEnds(t, starts[k]))])

\* the match the backtracking matcher reports: the first way that succeeds
FirstMatch(ways) == IF ways = <<>> THEN <<>> ELSE <<Head(ways)>>

\* One attempt of  LIT\.?\s*(NUMBER)  at offset i.  <<>> when it fails, else one
\* record: the span [gs, ge) of group 1 and the offset where the match ends.
MatchPrefixAt(t, i, lit) ==
    IF ~LitAt(t, i, lit) THEN <<>>
    ELSE FirstMatch(PrefixMatches(t, StartsAfter(t, AfterOptDot(t, i + Len(lit)))))

\* (?:ALT1|ALT2|...) at offset q: the ends of the alternatives that match, in
\* the order of the alternation
AltEnds(t, q, alts) ==
    Flatten([a \in DOMAIN alts |-> IF LitAt(t, q, alts[a]) THEN <<q + Len(alts[a])>> ELSE <<>>])

\* \s*(?:ALT1|ALT2|...) from the end e of a numeral at offset i
SuffixSpans(t, i, e, qs, alts) ==
    Flatten([n \in DOMAIN qs |->
        [m \in DOMAIN AltEnds(t, qs[n], alts) |->
            [gs |-> i, ge |-> e, end |-> AltEnds(t, qs[n], alts)[m]]]])

\* every way  (NUMBER)\s*(?:ALT1|ALT2|...)  matches at offset i, in the order tried
SuffixMatches(t, i, ends, alts) ==
    Flatten([k \in DOMAIN ends |-> SuffixSpans(t, i, ends[k], AfterSpaces(t, ends[k]), alts)])

\* One attempt of  (NUMBER)\s*(?:ALT1|ALT2|...)  at offset i.
MatchSuffixAt(t, i, alts) == FirstMatch(SuffixMatches(t, i, NumberEnds(t, i), alts))

\* length of the run of \d from offset j
RECURSIVE DigitRun(_, _)
DigitRun(t, j) == IF j < Len(t) /\ IsDigit(t[j + 1]) THEN 1 + DigitRun(t, j + 1) ELSE 0

\* (?:\.\d+)? from offset e: the ends of a fraction of f digits at most, the
\* longest first; the empty match is the caller's
FractionEndsOf(e, f) == [m \in 1..f |-> e + 2 + f - m]
FractionEnds(t, e) ==
    IF e < Len(t) /\ t[e + 1] = "." THEN FractionEndsOf(e, DigitRun(t, e + 1)) ELSE <<>>

\* \d+(?:\.\d+)? at offset i with a run of d digits there: every offset where
\* a match can end, in the order the backtracking matcher tries them
DecimalEndsOf(t, i, d) ==
    Flatten([k \in 1..d |-> FractionEnds(t, i + d + 1 - k) \o <<i + d + 1 - k>>])
DecimalEnds(t, i) == DecimalEndsOf(t, i, DigitRun(t, i))

\* One attempt of  (\d+(?:\.\d+)?)\s*UNIT  at offset i.
MatchUnitAt(t, i, units) == FirstMatch(SuffixMatches(t, i, DecimalEnds(t, i), units))

\* the span of a pattern without a group: re.findall reports the whole match
WholeSpans(i, stops) == [n \in DOMAIN stops |-> [gs |-> i, ge |-> stops[n], end |-> stops[n]]]

\* \s+WORD from offset p, qs being the ends of \s* there
SpacedEnds(t, p, qs, word) ==
    Flatten([n \in DOMAIN qs |-> IF qs[n] > p THEN AltEnds(t, qs[n], <<word>>) ELSE <<>>])

\* One attempt of  WORD1\s+WORD2  at offset i.
MatchWordsAt(t, i, words) ==
    IF ~LitAt(t, i, words[1]) THEN <<>>
    ELSE FirstMatch(WholeSpans(i, SpacedEnds(t, i + Len(words[1]),
                                             AfterSpaces(t, i + Len(words[1])), words[2])))

\* One attempt of a literal pattern at offset i.
MatchLiteralAt(t, i, lit) == WholeSpans(i, AltEnds(t, i, <<lit>>))

\* \w among the characters of the texts: letters, digits and '_' (the Sinhala
\* vowel sign U+0DD4 is a mark, not a letter)
WordChars == AsciiLetters \cup Digits \cup {"_", "U0DBB", "U0D9A", "U00E9"}

\* \b at offset p
Boundary(t, p) ==
    (p > 0 /\ t[p] \in WordChars) # (p < Len(t) /\ t[p + 1] \in WordChars)

\* length of the run of characters of the class S from offset j
RECURSIVE CharRun(_, _, _)
CharRun(t, j, S) == IF j < Len(t) /\ t[j + 1] \in S THEN 1 + CharRun(t, j + 1, S) ELSE 0

\* \d{7}\b after the second \s* of the first phone pattern
LineEnds(t, rs) ==
    Flatten([n \in DOMAIN rs |->
        IF DigitsAt(t, rs[n], 7) /\ Boundary(t, rs[n] + 7) THEN <<rs[n] + 7>> ELSE <<>>])

\* \d{2}\s*\d{7}\b after the first \s* of the first phone pattern
AreaEnds(t, qs) ==
    Flatten([n \in DOMAIN qs |->
        IF DigitsAt(t, qs[n], 2) THEN LineEnds(t, AfterSpaces(t, qs[n] + 2)) ELSE <<>>])

\* (?:\+94|0094|0)\s*\d{2}\s*\d{7}\b at offset i, in the order tried
PrefixedPhoneEnds(t, i, alts) ==
    Flatten([a \in DOMAIN alts |->
        IF LitAt(t, i, alts[a]) THEN AreaEnds(t, AfterSpaces(t, i + Len(alts[a]))) ELSE <<>>])

\* One attempt of  \b(?:\+94|0094|0)\s*\d{2}\s*\d{7}\b  at offset i.
MatchPrefixedPhoneAt(t, i, alts) ==
    IF Boundary(t, i) THEN FirstMatch(WholeSpans(i, PrefixedPhoneEnds(t, i, alts))) ELSE <<>>

\* One attempt of  \b\d{3}-\d{7}\b  at offset i.
MatchDashedPhoneAt(t, i) ==
    IF Boundary(t, i) /\ DigitsAt(t, i, 3) /\ LitAt(t, i + 3, <<"-">>)
          /\ DigitsAt(t, i + 4, 7) /\ Boundary(t, i + 11)
    THEN WholeSpans(i, <<i + 11>>) ELSE <<>>

\* One attempt of  \b\d{10}\b  at offset i.
MatchPlainPhoneAt(t, i) ==
    IF Boundary(t, i) /\ DigitsAt(t, i, 10) /\ Boundary(t, i + 10)
    THEN WholeSpans(i, <<i + 10>>) ELSE <<>>

\* the character classes of the email pattern
LocalChars  == AsciiLetters \cup Digits \cup {".", "_", "%", "+", "-"}
DomainChars == AsciiLetters \cup Digits \cup {".", "-"}
TldChars    == AsciiLetters \cup {"|"}

\* [A-Z|a-z]{2,}\b from offset s with a run of m class characters there
TldEnds(t, s, m) ==
    Flatten([k \in 1..m |->
        IF m + 1 - k >= 2 /\ Boundary(t, s + m + 1 - k) THEN <<s + m + 1 - k>> ELSE <<>>])

\* [A-Za-z0-9.-]+\.[A-Z|a-z]{2,}\b from offset p with a run of d class
\* characters there: the longest domain first
DomainEnds(t, p, d) ==
    Flatten([k \in 1..d |->
        IF LitAt(t, p + d + 1 - k, <<".">>)
        THEN TldEnds(t, p + d + 2 - k, CharRun(t, p + d + 2 - k, TldChars))
        ELSE <<>>])

\* [A-Za-z0-9._%+-]+@... at offset i with a run of l class characters there:
\* '@' is not of the class, so only the whole run can be followed by it
EmailEnds(t, i, l) ==
    IF l >= 1 /\ LitAt(t, i + l, <<"@">>)
    THEN DomainEnds(t, i + l + 1, CharRun(t, i + l + 1, DomainChars))
    ELSE <<>>

\* One attempt of the email pattern at offset i.
MatchEmailAt(t, i) ==
    IF Boundary(t, i) THEN FirstMatch(WholeSpans(i, EmailEnds(t, i, CharRun(t, i, LocalChars))))
    ELSE <<>>

\* the five patterns of extract_prices, in the order of the list
PricePatterns == <<
    [kind |-> "prefix", lits |-> << <<"R", "s">> >>],
    [kind |-> "prefix", lits |-> << <<"L", "K", "R">> >>],
    [kind |-> "suffix", lits |-> << <<"/", "-">> >>],
    [kind |-> "suffix", lits |-> << <<"/", "m", "o", "n", "t", "h">>,
                                    <<"p", "e", "r", " ", "m", "o", "n", "t", "h">>,
                                    <<"m", "o", "n", "t", "h", "l", "y">> >>],
    [kind |-> "prefix", lits |-> << <<"U0DBB", "U0DD4">> >>] >>

MatchAt(pat, t, i) ==
    CASE pat.kind = "prefix"  -> MatchPrefixAt(t, i, pat.lits[1])
      [] pat.kind = "suffix"  -> MatchSuffixAt(t, i, pat.lits)
      [] pat.kind = "unit"    -> MatchUnitAt(t, i, pat.lits)
      [] pat.kind = "words"   -> MatchWordsAt(t, i, pat.lits)
      [] pat.kind = "literal" -> MatchLiteralAt(t, i, pat.lits[1])
      [] pat.kind = "phone_prefixed" -> MatchPrefixedPhoneAt(t, i, pat.lits)
      [] pat.kind = "phone_dashed"   -> MatchDashedPhoneAt(t, i)
      [] pat.kind = "phone_plain"    -> MatchPlainPhoneAt(t, i)
      [] pat.kind = "email"          -> MatchEmailAt(t, i)

\* re.findall(pattern, text, re.IGNORECASE): the text of group 1 (of the whole
\* match when the pattern has no group) of every match, scanning left to right
\* without overlap.
RECURSIVE FindAll(_, _, _)
\* the scan after the attempt m at offset pos
FindNext(pat, t, pos, m) ==
    IF m = <<>> THEN FindAll(pat, t, pos + 1)
    ELSE <<Slice(t, m[1].gs, m[1].ge)>> \o FindAll(pat, t, m[1].end)

FindAll(pat, t, pos) ==
    IF pos >= Len(t) THEN <<>> ELSE FindNext(pat, t, pos, MatchAt(pat, t, pos))

(***************************************************************************)
(* Numbers                                                                 *)
(***************************************************************************)
\* int() of a digit string
RECURSIVE DigitsValue(_)
DigitsValue(ds) ==
    IF ds = <<>> THEN 0
    ELSE 10 * DigitsValue(SubSeq(ds, 1, Len(ds) - 1)) + DigitMap[ds[Len(ds)]]

\* s.replace(c, '')
RECURSIVE RemoveChar(_, _)
RemoveChar(t, c) ==
    IF t = <<>> THEN <<>>
    ELSE IF Head(t) = c THEN RemoveChar(Tail(t), c)
    ELSE <<Head(t)>> \o RemoveChar(Tail(t), c)

\* str.find(sub): the least offset where sub occurs, or -1
Least(hits) == IF hits = {} THEN -1 ELSE CHOOSE i \in hits : \A j \in hits : i <= j
Find(t, sub) == Least({i \in 0..(Len(t) - Len(sub)) : Slice(t, i, i + Len(sub)) = sub})

\* sub in t
Contains(t, sub) == Find(t, sub) # -1

\* float(s) for a decimal literal  digits[.digits]  with at most two fraction
\* digits, in hundredths
FractionHundredths(frac) == IF Len(frac) = 1 THEN 10 * DigitsValue(frac) ELSE DigitsValue(frac)
DecimalHundredths(s, dot) ==
    IF dot = -1 THEN 100 * DigitsValue(s)
    ELSE 100 * DigitsValue(Slice(s, 0, dot)) + FractionHundredths(Slice(s, dot + 1, Len(s)))
FloatHundredths(s) == DecimalHundredths(s, Find(s, <<".">>))

(***************************************************************************)
(* Price extraction                                                        *)
(***************************************************************************)
ContextLength == 50
Ellipsis == <<".", ".", ".">>

\* lines 102-108: the window [start, end) with the ellipses, stripped
ContextWindow(t, start, end) ==
    Strip((IF start > 0 THEN Ellipsis ELSE <<>>) \o Slice(t, start, end)
            \o (IF end < Len(t) THEN Ellipsis ELSE <<>>))

\* lines 96-100: nothing when the price is not found, else the window bounds
ContextAt(t, price_index, price_len, context_length) ==
    IF price_index = -1 THEN <<>>
    ELSE ContextWindow(t, Max(0, price_index - context_length),
                       Min(Len(t), price_index + price_len + context_length))

\* ContentConsistencyAnalyzer.get_price_context
get_price_context(t, price, context_length) ==
    ContextAt(t, Find(Lower(t), Lower(price)), Len(price), context_length)

\* lines 83-89: the dict appended for one match
PriceDict(t, match) ==
    [value    |-> FloatHundredths(RemoveChar(match, ",")),
     original |-> match,
     context  |-> get_price_context(t, match, ContextLength)]

\* lines 80-89: the loop over the matches of one pattern
PriceDicts(t, matches) == [k \in DOMAIN matches |-> PriceDict(t, matches[k])]

\* ContentConsistencyAnalyzer.extract_prices
extract_prices(t) ==
    Flatten([p \in DOMAIN PricePatterns |-> PriceDicts(t, FindAll(PricePatterns[p], t, 0))])

(***************************************************************************)
(* Package extraction.  The numerals of the texts have at most two fraction *)
(* digits, so float() of a match is exact in hundredths.                    *)
(***************************************************************************)
\* extract_package_details: speed_patterns (re.IGNORECASE makes the first two
\* the same pattern)
SpeedPatterns == <<
    [kind |-> "unit", lits |-> << <<"M", "b", "p", "s">> >>],
    [kind |-> "unit", lits |-> << <<"m", "b", "p", "s">> >>],
    [kind |-> "unit", lits |-> << <<"M", "B", "/", "s">> >>],
    [kind |-> "unit", lits |-> << <<"G", "B", "/", "s">> >>] >>

\* extract_package_details: data_patterns
DataPatterns == <<
    [kind |-> "unit", lits |-> << <<"G", "B">> >>],
    [kind |-> "unit", lits |-> << <<"T", "B">> >>],
    [kind |-> "words", lits |-> << <<"u","n","l","i","m","i","t","e","d">>, <<"d","a","t","a">> >>],
    [kind |-> "literal", lits |-> << <<"u","n","l","i","m","i","t","e","d">> >>] >>

\* extract_package_details: feature_keywords
FeatureKeywords == <<
    <<"f","i","b","e","r">>, <<"f","i","b","r","e">>, <<"a","d","s","l">>, <<"4","g">>,
    <<"l","t","e">>, <<"w","i","f","i">>, <<"w","i","-","f","i">>, <<"p","e","o","t","v">>,
    <<"i","p","t","v">>, <<"t","e","l","e","p","h","o","n","e">>, <<"v","o","i","c","e">>,
    <<"e","m","a","i","l">>, <<"c","l","o","u","d">>,
    <<"f","r","e","e"," ","i","n","s","t","a","l","l","a","t","i","o","n">>,
    <<"f","r","e","e"," ","r","o","u","t","e","r">>,
    <<"u","n","l","i","m","i","t","e","d">>, <<"f","i","x","e","d">> >>

\* lines 129-132: the dict appended for one speed match
SpeedDict(t, match) ==
    [value |-> FloatHundredths(match), context |-> get_price_context(t, match, ContextLength)]
SpeedDicts(t, matches) == [k \in DOMAIN matches |-> SpeedDict(t, matches[k])]

\* lines 145-154: the dict appended for one data-limit match; a numeral match
\* is all digits once its '.' is removed, so its value is float(match)
Unlimited == <<"u","n","l","i","m","i","t","e","d">>
DataLimitDict(t, match) ==
    IF Contains(Lower(match), Unlimited)
    THEN [type |-> Unlimited, context |-> get_price_context(t, match, ContextLength)]
    ELSE [value |-> FloatHundredths(match), context |-> get_price_context(t, match, ContextLength)]
DataLimitDicts(t, matches) == [k \in DOMAIN matches |-> DataLimitDict(t, matches[k])]

\* lines 163-169: the dict appended for a keyword that occurs in text_lower
FeatureDicts(t, text_lower) ==
    Flatten([f \in DOMAIN FeatureKeywords |->
        IF Contains(text_lower, FeatureKeywords[f])
        THEN <<[feature |-> FeatureKeywords[f],
                context |-> get_price_context(t, FeatureKeywords[f], ContextLength)]>>
        ELSE <<>>])

\* ContentConsistencyAnalyzer.extract_package_details
extract_package_details(t) ==
    [speeds |-> Flatten([p \in DOMAIN SpeedPatterns |->
                    SpeedDicts(t, FindAll(SpeedPatterns[p], t, 0))]),
     data_limits |-> Flatten([p \in DOMAIN DataPatterns |->
                    DataLimitDicts(t, FindAll(DataPatterns[p], t, 0))]),
     features |-> FeatureDicts(t, Lower(t))]

(***************************************************************************)
(* Contact extraction                                                      *)
(***************************************************************************)
\* extract_contact_info: phone_patterns
PhonePatterns == <<
    [kind |-> "phone_prefixed", lits |-> << <<"+","9","4">>, <<"0","0","9","4">>, <<"0">> >>],
    [kind |-> "phone_dashed", lits |-> <<>>],
    [kind |-> "phone_plain", lits |-> <<>>] >>

\* extract_contact_info: email_pattern
EmailPattern == [kind |-> "email", lits |-> <<>>]

\* lines 189-193: the dicts appended for the matches of one phone pattern
PhoneDicts(t, matches) ==
    [k \in DOMAIN matches |->
        [number |-> matches[k], context |-> get_price_context(t, matches[k], ContextLength)]]

\* lines 198-202: the dicts appended for the email matches
EmailDicts(t, matches) ==
    [k \in DOMAIN matches |->
        [email |-> matches[k], context |-> get_price_context(t, matches[k], ContextLength)]]

\* ContentConsistencyAnalyzer.extract_contact_info
extract_contact_info(t) ==
    [phone_numbers |-> Flatten([p \in DOMAIN PhonePatterns |->
                          PhoneDicts(t, FindAll(PhonePatterns[p], t, 0))]),
     email_addresses |-> EmailDicts(t, FindAll(EmailPattern, t, 0)),
     addresses |-> <<>>]

(***************************************************************************)
(* The analyzer object                                                     *)
(***************************************************************************)
\* ContentConsistencyAnalyzer.__init__: self.inconsistencies
EmptyInconsistencies ==
    [pricing_discrepancies         |-> <<>>,
     package_details_discrepancies |-> <<>>,
     service_feature_discrepancies |-> <<>>,
     translation_mismatches        |-> <<>>,
     contact_info_discrepancies    |-> <<>>]

NoResult == [fn |-> "none", value |-> <<>>]
NoTrace  == [phase |-> "none"]

\* SLTWebsiteCrawler.__init__: a crawler that has crawled nothing
IdleCrawler ==
    /\ pages_content = <<>>
    /\ futures = <<>>
    /\ contradictions = <<>>

\* an analyzer that was constructed over an empty document and never run
IdleAnalyzer ==
    /\ IdleCrawler
    /\ data = <<>>
    /\ inconsistencies = EmptyInconsistencies
    /\ raised = "none"
    /\ calls = 0
    /\ trace = NoTrace

(***************************************************************************)
(* Pages.  A page is the value of one URL key of the JSON document: a       *)
(* record with the set `has` of the keys that are present.  An OCR image is *)
(* modelled by its 'text' (an image without 'text' reads as ''), and the    *)
(* document as the sequence of its pages in key order.                      *)
(***************************************************************************)
\* page_data.get('title', ''), page_data.get('text', '')
GetText(page, key) == IF key \in page.has THEN page[key] ELSE <<>>
\* page_data.get('ocr_images', [])
GetImages(page) == IF "ocr_images" \in page.has THEN page.ocr_images ELSE <<>>

\* the loop  for img in ...: if ocr_text: all_text += f" {ocr_text}"
RECURSIVE AppendOcr(_, _)
AppendOcr(all_text, imgs) ==
    IF imgs = <<>> THEN all_text
    ELSE AppendOcr(IF Head(imgs) # <<>> THEN all_text \o <<" ">> \o Head(imgs) ELSE all_text,
                   Tail(imgs))

\* all_text = f"{title} {text}" followed by the OCR texts
AllText(page) ==
    AppendOcr(GetText(page, "title") \o <<" ">> \o GetText(page, "text"), GetImages(page))

(***************************************************************************)
(* Pricing phase.  Prices are whole rupees written in hundredths, for which *)
(* the float subtraction is exact and the quotient is correctly rounded, so *)
(* (a - b) / b < 0.1  is decided exactly by  10 * (a - b) < b.              *)
(***************************************************************************)
Abs(x) == IF x < 0 THEN -x ELSE x

\* n / d rounded to the nearest integer, ties to even, as '.0f' and '.1f' do
RoundDiv(n, d) ==
    IF 2 * (n % d) > d \/ (2 * (n % d) = d /\ (n \div d) % 2 = 1) THEN (n \div d) + 1 ELSE n \div d

AnyWord(context_lower, words) == \E k \in DOMAIN words : Contains(context_lower, words[k])

\* lines 234-243 with the adsl family tested before the fiber family
CategoryOf_adsl_first(context_lower) ==
    IF AnyWord(context_lower, << <<"a","d","s","l">>, <<"m","e","g","a","l","i","n","e">> >>) THEN "adsl"
    ELSE IF AnyWord(context_lower, << <<"f","i","b","e","r">>, <<"f","i","b","r","e">>, <<"f","t","t","x">> >>) THEN "fiber"
    ELSE IF AnyWord(context_lower, << <<"4","g">>, <<"l","t","e">>, <<"m","o","b","i","l","e">> >>) THEN "4g_mobile"
    ELSE IF AnyWord(context_lower, << <<"p","e","o","t","v">>, <<"t","v">>, <<"t","e","l","e","v","i","s","i","o","n">> >>) THEN "tv"
    ELSE IF AnyWord(context_lower, << <<"p","a","c","k","a","g","e">>, <<"p","l","a","n">>, <<"b","u","n","d","l","e">> >>) THEN "package"
    ELSE "unknown"

\* lines 234-243: the first keyword family with a word in the context
CategoryOf(context_lower) ==
    IF AnyWord(context_lower, << <<"f","i","b","e","r">>, <<"f","i","b","r","e">>,
                                 <<"f","t","t","x">> >>) THEN "fiber"
    ELSE IF AnyWord(context_lower, << <<"a","d","s","l">>,
                                 <<"m","e","g","a","l","i","n","e">> >>) THEN "adsl"
    ELSE IF AnyWord(context_lower, << <<"4","g">>, <<"l","t","e">>,
                                 <<"m","o","b","i","l","e">> >>) THEN "4g_mobile"
    ELSE IF AnyWord(context_lower, << <<"p","e","o","t","v">>, <<"t","v">>,
                                 <<"t","e","l","e","v","i","s","i","o","n">> >>) THEN "tv"
    ELSE IF AnyWord(context_lower, << <<"p","a","c","k","a","g","e">>, <<"p","l","a","n">>,
                                 <<"b","u","n","d","l","e">> >>) THEN "package"
    ELSE "unknown"

\* lines 231-243: the category of a price from its context
PriceCategory(context) == CategoryOf(Lower(context))

\* lines 229-251: the price_info dict of one extracted price, with the category
\* key it is filed under
PriceInfo(url, price) ==
    [url      |-> url,
     price    |-> price.value,
     original |-> price.original,
     context  |-> price.context,
     language |-> detect_language(price.context),
     category |-> PriceCategory(price.context)]

\* lines 229-251: the loop over the prices of one page
PriceInfos(url, prices) == [k \in DOMAIN prices |-> PriceInfo(url, prices[k])]

\* lines 214-251 for one page
PagePriceInfos(page) == PriceInfos(page.url, extract_prices(AllText(page)))

AllPriceInfos(d) == Flatten([i \in DOMAIN d |-> PagePriceInfos(d[i])])

\* the keys of a dict filled in this order, in insertion order
RECURSIVE KeyOrder(_, _)
KeyOrder(keys, seen) ==
    IF keys = <<>> THEN <<>>
    ELSE IF Head(keys) \in seen THEN KeyOrder(Tail(keys), seen)
    ELSE <<Head(keys)>> \o KeyOrder(Tail(keys), seen \cup {Head(keys)})

\* price_groups[category], with the position of each dict in the list kept in
\* `pos` (the identity of the dict object)
Numbered(g) ==
    [k \in DOMAIN g |->
        [url |-> g[k].url, price |-> g[k].price, original |-> g[k].original,
         context |-> g[k].context, language |-> g[k].language, pos |-> k]]
PriceGroup(infos, category) == Numbered(SelectSeq(infos, LAMBDA x : x.category = category))

\* the scan without the break: the price joins the last group within 10%
RECURSIVE ScanGroups_last_match(_, _, _)
ScanGroups_last_match(unique_prices, price_val, g) ==
    IF g > Len(unique_prices) THEN 0
    ELSE LET existing_price == unique_prices[g][1].price
             later == ScanGroups_last_match(unique_prices, price_val, g + 1)
         IN  IF existing_price = 0 THEN -1
             ELSE IF later # 0 THEN later
             ELSE IF 10 * Abs(price_val - existing_price) < existing_price THEN g
             ELSE 0

\* the scan comparing with the last member of each group, existing_group[-1]
RECURSIVE ScanGroups_last_member(_, _, _)
ScanGroups_last_member(unique_prices, price_val, g) ==
    IF g > Len(unique_prices) THEN 0
    ELSE LET existing_price == unique_prices[g][Len(unique_prices[g])].price
         IN  IF existing_price = 0 THEN -1
             ELSE IF 10 * Abs(price_val - existing_price) < existing_price THEN g
             ELSE ScanGroups_last_member(unique_prices, price_val, g + 1)

\* the scan with a tolerance of 20% instead of 10%
RECURSIVE ScanGroups_tolerance_of_a_fifth(_, _, _)
ScanGroups_tolerance_of_a_fifth(unique_prices, price_val, g) ==
    IF g > Len(unique_prices) THEN 0
    ELSE LET existing_price == unique_prices[g][1].price
         IN  IF existing_price = 0 THEN -1
             ELSE IF 5 * Abs(price_val - existing_price) < existing_price THEN g
             ELSE ScanGroups_tolerance_of_a_fifth(unique_prices, price_val, g + 1)

\* lines 264-270: the group the price joins; 0 when the scan ends without a
\* break, -1 when a division by a zero representative raises
RECURSIVE ScanGroups(_, _, _)
ScanGroups(unique_prices, price_val, g) ==
    IF g > Len(unique_prices) THEN 0
    ELSE LET existing_price == unique_prices[g][1].price
         IN  IF existing_price = 0 THEN -1
             ELSE IF 10 * Abs(price_val - existing_price) < existing_price THEN g
             ELSE ScanGroups(unique_prices, price_val, g + 1)

\* lines 260-273 for one price_info
Place(st, price_info, g) ==
    IF g = -1 THEN [st EXCEPT !.raised = TRUE]
    ELSE IF g = 0 THEN [st EXCEPT !.unique_prices = Append(@, <<price_info>>)]
    ELSE [st EXCEPT !.unique_prices[g] = Append(@, price_info)]
ClusterStep(st, price_info) ==
    IF st.raised THEN st
    ELSE Place(st, price_info, ScanGroups(st.unique_prices, price_info.price, 1))

\* lines 258-273: the loop over the first n prices of the category
RECURSIVE ClusterPrices(_, _)
ClusterPrices(prices, n) ==
    IF n = 0 THEN [unique_prices |-> <<>>, raised |-> FALSE]
    ELSE ClusterStep(ClusterPrices(prices, n - 1), prices[n])

SeqMin(s) == CHOOSE x \in {s[i] : i \in DOMAIN s} : \A i \in DOMAIN s : x <= s[i]
SeqMax(s) == CHOOSE x \in {s[i] : i \in DOMAIN s} : \A i \in DOMAIN s : x >= s[i]

\* lines 285-298: the record appended for a category
PricingRecord(category, unique_prices, min_price, max_price) ==
    [category |-> category,
     price_range |-> [min |-> RoundDiv(min_price, 100), max |-> RoundDiv(max_price, 100)],
     \* in tenths of a percent
     difference_percentage |-> RoundDiv(1000 * (max_price - min_price), min_price),
     occurrences |->
        [g \in DOMAIN unique_prices |->
            [url      |-> unique_prices[g][1].url,
             price    |-> RoundDiv(unique_prices[g][1].price, 100),
             context  |-> unique_prices[g][1].context,
             language |-> unique_prices[g][1].language,
             count    |-> Len(unique_prices[g])]]]

\* lines 275-298: the body of  if len(unique_prices) > 1
SpreadOutcome(base, min_price, max_price) ==
    IF min_price = 0 THEN [base EXCEPT !.raised = TRUE]
    ELSE IF 5 * (max_price - min_price) > min_price
    THEN [base EXCEPT !.records =
            <<PricingRecord(base.category, base.unique_prices, min_price, max_price)>>]
    ELSE base

\* line 277: the representatives, (group[0]['price'], len(group)) without the count
Representatives(unique_prices) == [g \in DOMAIN unique_prices |-> unique_prices[g][1].price]

\* lines 275-281 for the clusters built
RangeOutcome(base, reps) ==
    IF base.raised \/ Len(reps) <= 1 THEN base ELSE SpreadOutcome(base, SeqMin(reps), SeqMax(reps))

\* lines 258-298 for the result c of the clustering loop
ClusterOutcome(category, prices, c) ==
    RangeOutcome([category |-> category, prices |-> prices, clustered |-> TRUE,
                  unique_prices |-> c.unique_prices, raised |-> c.raised, records |-> <<>>],
                 Representatives(c.unique_prices))

\* lines 255-298 for one category: the records appended, whether an exception
\* left the body, and the clusters built
CategoryOutcome(category, prices) ==
    IF Len(prices) <= 1
    THEN [category |-> category, prices |-> prices, clustered |-> FALSE,
          unique_prices |-> <<>>, raised |-> FALSE, records |-> <<>>]
    ELSE ClusterOutcome(category, prices, ClusterPrices(prices, Len(prices)))

\* the outcomes up to the first one an exception left
RECURSIVE UntilRaised(_)
UntilRaised(os) ==
    IF os = <<>> THEN <<>>
    ELSE IF Head(os).raised THEN <<Head(os)>>
    ELSE <<Head(os)>> \o UntilRaised(Tail(os))

\* line 254: the loop over the categories, left at the first exception
CategoryLoop(infos, categories) ==
    UntilRaised([k \in DOMAIN categories |->
        CategoryOutcome(categories[k], PriceGroup(infos, categories[k]))])

\* price_groups as it stands when the extraction loop ends
PriceGroupKeys(infos) == KeyOrder([k \in DOMAIN infos |-> infos[k].category], {})

\* ContentConsistencyAnalyzer.analyze_pricing_consistency: what the call
\* computes from self.data: the keys of price_groups and, for each category
\* the loop at line 254 reached, its outcome
PriceGroupOutcomes(infos) ==
    [keys |-> PriceGroupKeys(infos), outcomes |-> CategoryLoop(infos, PriceGroupKeys(infos))]
PricingOutcomes(d) == PriceGroupOutcomes(AllPriceInfos(d))

OutcomeRecords(os) == Flatten([k \in DOMAIN os |-> os[k].records])
OutcomeRaised(os)  == \E k \in DOMAIN os : os[k].raised

MaxCalls == 2

\* ContentConsistencyAnalyzer.analyze_pricing_consistency
analyze_pricing_consistency ==
    /\ calls < MaxCalls
    /\ trace' = [phase |-> "pricing",
                 run |-> PricingOutcomes(data),
                 before |-> Len(inconsistencies.pricing_discrepancies)]
    /\ inconsistencies' =
         [inconsistencies EXCEPT
            !.pricing_discrepancies = @ \o OutcomeRecords(trace'.run.outcomes)]
    /\ raised' = IF OutcomeRaised(trace'.run.outcomes) THEN "ZeroDivisionError" ELSE "none"
    /\ calls' = calls + 1
    /\ UNCHANGED <<data, sample, text, result, pages_content, futures, contradictions>>

(***************************************************************************)
(* Package phase                                                           *)
(***************************************************************************)
\* the characters of the feature keywords in code-point order
CharOrder == <<" ", "-">> \o DigitSeq \o LowerSeq
CodePoint(c) == CHOOSE i \in DOMAIN CharOrder : CharOrder[i] = c

\* a < b for str
RECURSIVE StrLess(_, _)
StrLess(a, b) ==
    IF b = <<>> THEN FALSE
    ELSE IF a = <<>> THEN TRUE
    ELSE IF Head(a) = Head(b) THEN StrLess(Tail(a), Tail(b))
    ELSE CodePoint(Head(a)) < CodePoint(Head(b))

RECURSIVE SortedInsert(_, _)
SortedInsert(ss, s) ==
    IF ss = <<>> THEN <<s>>
    ELSE IF StrLess(s, Head(ss)) THEN <<s>> \o ss
    ELSE <<Head(ss)>> \o SortedInsert(Tail(ss), s)

\* sorted(list of str)
RECURSIVE Sorted(_)
Sorted(ss) ==
    IF ss = <<>> THEN <<>> ELSE SortedInsert(Sorted(SubSeq(ss, 1, Len(ss) - 1)), ss[Len(ss)])

\* sep.join(list of str)
RECURSIVE Join(_, _)
Join(ss, sep) ==
    IF ss = <<>> THEN <<>>
    ELSE IF Len(ss) = 1 THEN ss[1]
    ELSE ss[1] \o sep \o Join(Tail(ss), sep)

\* the decimal digits of a natural number
RECURSIVE IntStr(_)
IntStr(n) == IF n < 10 THEN <<DigitSeq[n + 1]>> ELSE IntStr(n \div 10) \o <<DigitSeq[(n % 10) + 1]>>

\* str(float) of a value in hundredths: '5.0', '10.5', '5.25'
FloatStr(v) ==
    IntStr(v \div 100) \o <<".">> \o
        (IF v % 10 = 0 THEN IntStr((v % 100) \div 10)
         ELSE <<DigitSeq[((v % 100) \div 10) + 1], DigitSeq[(v % 10) + 1]>>)

SeqSet(s) == {s[i] : i \in DOMAIN s}

\* lines 320-326: the entry of package_details for a page whose details are not
\* all empty
PackageEntry(url, all_text, details) ==
    IF details.speeds # <<>> \/ details.data_limits # <<>> \/ details.features # <<>>
    THEN <<[url |-> url, details |-> details, language |-> detect_language(all_text)]>>
    ELSE <<>>

\* lines 307-326 for one page
PagePackageDetails(page) ==
    PackageEntry(page.url, AllText(page), extract_package_details(AllText(page)))

\* lines 305-326: package_details.items() in insertion order
PackageDetails(d) == Flatten([i \in DOMAIN d |-> PagePackageDetails(d[i])])

\* lines 332-333: feature_key
FeatureNames(features) == [k \in DOMAIN features |-> features[k].feature]
FeatureKey(details) == Join(Sorted(FeatureNames(details.features)), <<"-">>)

\* lines 331-341: each entry with its feature_key and the dict appended for it
Keyed(entries) ==
    [k \in DOMAIN entries |->
        [key |-> FeatureKey(entries[k].details),
         package |-> [url         |-> entries[k].url,
                      speeds      |-> entries[k].details.speeds,
                      data_limits |-> entries[k].details.data_limits,
                      language    |-> entries[k].language]]]

\* feature_groups[feature_key]
Packages(members) == [k \in DOMAIN members |-> members[k].package]
NonEmptyKeys(keyed) ==
    Flatten([k \in DOMAIN keyed |-> IF keyed[k].key # <<>> THEN <<keyed[k].key>> ELSE <<>>])
GroupsFor(keyed, keys) ==
    [g \in DOMAIN keys |->
        [feature_key |-> keys[g],
         packages    |-> Packages(SelectSeq(keyed, LAMBDA x : x.key = keys[g]))]]

\* lines 329-341: feature_groups.items() in insertion order
FeatureGroups(keyed) == GroupsFor(keyed, KeyOrder(NonEmptyKeys(keyed), {}))

\* lines 346-348: all_speeds
AllSpeeds(packages) ==
    Flatten([k \in DOMAIN packages |->
        [j \in DOMAIN packages[k].speeds |-> packages[k].speeds[j].value]])

\* lines 359-365: data_limit_types
LimitType(limit) ==
    IF "type" \in DOMAIN limit THEN <<limit.type>>
    ELSE IF "value" \in DOMAIN limit THEN <<FloatStr(limit.value)>>
    ELSE <<>>
DataLimitTypes(packages) ==
    Flatten([k \in DOMAIN packages |->
        Flatten([j \in DOMAIN packages[k].data_limits |-> LimitType(packages[k].data_limits[j])])])

\* lines 350-356; list(set(...)) is kept as the set
SpeedRecords(feature_key, packages, all_speeds) ==
    IF all_speeds # <<>> /\ Cardinality(SeqSet(all_speeds)) > 1
    THEN <<[type |-> "speed_inconsistency", feature_group |-> feature_key,
            speed_variations |-> SeqSet(all_speeds), packages |-> packages]>>
    ELSE <<>>

\* lines 367-373
DataLimitRecords(feature_key, packages, data_limit_types) ==
    IF data_limit_types # <<>> /\ Cardinality(SeqSet(data_limit_types)) > 1
    THEN <<[type |-> "data_limit_inconsistency", feature_group |-> feature_key,
            data_variations |-> SeqSet(data_limit_types), packages |-> packages]>>
    ELSE <<>>

\* lines 343-373 with the test  len(packages) > 1  left out
GroupRecords_any_size(feature_key, packages) ==
    SpeedRecords(feature_key, packages, AllSpeeds(packages))
        \o DataLimitRecords(feature_key, packages, DataLimitTypes(packages))

\* lines 343-373: the records appended for one feature group
GroupRecords(feature_key, packages) ==
    IF Len(packages) > 1
    THEN SpeedRecords(feature_key, packages, AllSpeeds(packages))
            \o DataLimitRecords(feature_key, packages, DataLimitTypes(packages))
    ELSE <<>>

\* lines 342-373: the loop over feature_groups
PackageGroupOutcomes(groups) ==
    [groups  |-> groups,
     records |-> Flatten([g \in DOMAIN groups |->
                    GroupRecords(groups[g].feature_key, groups[g].packages)])]

\* what analyze_package_consistency computes from self.data
PackageOutcomes(d) == PackageGroupOutcomes(FeatureGroups(Keyed(PackageDetails(d))))

\* ContentConsistencyAnalyzer.analyze_package_consistency
analyze_package_consistency ==
    /\ calls < MaxCalls
    /\ trace' = [phase |-> "package",
                 run |-> PackageOutcomes(data),
                 before |-> Len(inconsistencies.package_details_discrepancies)]
    /\ inconsistencies' =
         [inconsistencies EXCEPT !.package_details_discrepancies = @ \o trace'.run.records]
    /\ raised' = "none"
    /\ calls' = calls + 1
    /\ UNCHANGED <<data, sample, text, result, pages_content, futures, contradictions>>

(***************************************************************************)
(* Translation phase.  An outcome is what one step of the phase did: the    *)
(* records it appended and whether an exception left it.  The lists that    *)
(* list(set(...)) builds are modelled by the sets, their order being that   *)
(* of the hash table.                                                       *)
(***************************************************************************)
\* str.replace(old, new)
RECURSIVE Replace(_, _, _)
Replace(s, old, new) ==
    IF Len(s) < Len(old) THEN s
    ELSE IF SubSeq(s, 1, Len(old)) = old
         THEN new \o Replace(SubSeq(s, Len(old) + 1, Len(s)), old, new)
    ELSE <<Head(s)>> \o Replace(Tail(s), old, new)

\* line 472: url.replace('/en/', '/').replace('/si/', '/')
UrlKey(url) == Replace(Replace(url, <<"/","e","n","/">>, <<"/">>), <<"/","s","i","/">>, <<"/">>)

\* lines 480-487 with a ratio of one half counted as an overlap
FeatureOverlap_at_least_half(features1, features2) ==
    /\ features1 # {} /\ features2 # {}
    /\ 2 * Cardinality(features1 \cap features2) >= Cardinality(features1 \cup features2)

\* lines 480-487: more than half of the features of the two pages are shared
FeatureOverlap(features1, features2) ==
    /\ features1 # {} /\ features2 # {}
    /\ 2 * Cardinality(features1 \cap features2) > Cardinality(features1 \cup features2)

\* might_be_translations with the URL rule kept for pages that carry prices
might_be_translations_url_rule_needs_prices(url1, url2, info1, info2) ==
    \/ UrlKey(url1) = UrlKey(url2) /\ info1.prices # <<>> /\ info2.prices # <<>>
    \/ Abs(Len(info1.prices) - Len(info2.prices)) <= 1 /\ Len(info1.prices) > 0
    \/ FeatureOverlap(SeqSet(FeatureNames(info1.package_details.features)),
                      SeqSet(FeatureNames(info2.package_details.features)))

\* ContentConsistencyAnalyzer.might_be_translations
might_be_translations(url1, url2, info1, info2) ==
    \/ UrlKey(url1) = UrlKey(url2)
    \/ Abs(Len(info1.prices) - Len(info2.prices)) <= 1 /\ Len(info1.prices) > 0
    \/ FeatureOverlap(SeqSet(FeatureNames(info1.package_details.features)),
                      SeqSet(FeatureNames(info2.package_details.features)))

RECURSIVE NumberInsert(_, _)
NumberInsert(ns, n) ==
    IF ns = <<>> THEN <<n>>
    ELSE IF n < Head(ns) THEN <<n>> \o ns
    ELSE <<Head(ns)>> \o NumberInsert(Tail(ns), n)

\* sorted(list of float)
RECURSIVE SortedNumbers(_)
SortedNumbers(ns) ==
    IF ns = <<>> THEN <<>>
    ELSE NumberInsert(SortedNumbers(SubSeq(ns, 1, Len(ns) - 1)), ns[Len(ns)])

\* lines 499-503: the loop over the zipped sorted lists;
\* abs(p1 - p2) / max(p1, p2) > 0.05  is decided by  20 * |p1 - p2| > max
RECURSIVE ZipCompare(_, _)
ZipCompare(prices1_sorted, prices2_sorted) ==
    IF prices1_sorted = <<>> THEN "True"
    ELSE IF Max(Head(prices1_sorted), Head(prices2_sorted)) = 0 THEN "ZeroDivisionError"
    ELSE IF 20 * Abs(Head(prices1_sorted) - Head(prices2_sorted))
               > Max(Head(prices1_sorted), Head(prices2_sorted)) THEN "False"
    ELSE ZipCompare(Tail(prices1_sorted), Tail(prices2_sorted))

\* ContentConsistencyAnalyzer.price_lists_match: "True", "False", or the
\* exception it raises
price_lists_match(prices1, prices2) ==
    IF Len(prices1) # Len(prices2) THEN "False"
    ELSE ZipCompare(SortedNumbers(prices1), SortedNumbers(prices2))

\* [p['value'] for p in prices]
Values(prices) == [k \in DOMAIN prices |-> prices[k].value]

NoRecords == [raised |-> FALSE, records |-> <<>>]

\* lines 433-443 for the verdict of price_lists_match
PriceVerdict(url1, url2, prices1, prices2, verdict) ==
    [raised  |-> verdict = "ZeroDivisionError",
     records |-> IF verdict = "False"
                 THEN <<[type |-> "price_mismatch_between_languages",
                         url1 |-> url1, url2 |-> url2,
                         language1 |-> "english", language2 |-> "sinhala",
                         prices1 |-> prices1, prices2 |-> prices2,
                         difference |-> "Prices differ between language versions"]>>
                 ELSE <<>>]

\* lines 428-443
PriceComparison(url1, url2, prices1, prices2) ==
    IF prices1 # <<>> /\ prices2 # <<>>
    THEN PriceVerdict(url1, url2, prices1, prices2, price_lists_match(prices1, prices2))
    ELSE NoRecords

\* lines 446-467
FeatureComparison(url1, url2, features1_set, features2_set) ==
    IF features1_set # {} /\ features2_set # {} /\ features1_set # features2_set
    THEN <<[type |-> "feature_mismatch_between_languages",
            url1 |-> url1, url2 |-> url2,
            language1 |-> "english", language2 |-> "sinhala",
            missing_in_lang1 |-> features2_set \ features1_set,
            missing_in_lang2 |-> features1_set \ features2_set]>>
    ELSE <<>>

\* lines 427-467: the feature comparison follows unless the price comparison raised
ComparePair(url1, url2, price_outcome, features1, features2) ==
    IF price_outcome.raised THEN price_outcome
    ELSE [raised  |-> FALSE,
          records |-> price_outcome.records
                        \o FeatureComparison(url1, url2, SeqSet(features1), SeqSet(features2))]

\* lines 423-467: the body of the nested loop for one english and one sinhala page
PairOutcome(info1, info2) ==
    IF might_be_translations(info1.url, info2.url, info1, info2)
    THEN ComparePair(info1.url, info2.url,
                     PriceComparison(info1.url, info2.url,
                                     Values(info1.prices), Values(info2.prices)),
                     FeatureNames(info1.package_details.features),
                     FeatureNames(info2.package_details.features))
    ELSE NoRecords

\* ContentConsistencyAnalyzer.compare_cross_language_consistency: the steps of
\* the nested loop in order
compare_cross_language_consistency(pages1, pages2) ==
    Flatten([a \in DOMAIN pages1 |-> [b \in DOMAIN pages2 |-> PairOutcome(pages1[a], pages2[b])]])

\* lines 517-524 for the verdict of price_lists_match
MixedVerdict(url, eng_values, sin_values, verdict) ==
    [raised  |-> verdict = "ZeroDivisionError",
     records |-> IF verdict = "False"
                 THEN <<[type |-> "internal_language_price_mismatch", url |-> url,
                         english_prices |-> eng_values, sinhala_prices |-> sin_values,
                         issue |-> "Different prices in English and Sinhala sections of the same page"]>>
                 ELSE <<>>]

\* lines 513-524
MixedComparison(url, eng_values, sin_values) ==
    IF eng_values # <<>> /\ sin_values # <<>>
    THEN MixedVerdict(url, eng_values, sin_values, price_lists_match(eng_values, sin_values))
    ELSE NoRecords

\* lines 510-511: the prices whose context is classified as the language
PricesIn(prices, language) ==
    SelectSeq(prices, LAMBDA q : detect_language(q.context) = language)

\* ContentConsistencyAnalyzer.check_mixed_language_consistency
check_mixed_language_consistency(url, page_info) ==
    MixedComparison(url, Values(PricesIn(page_info.prices, "english")),
                         Values(PricesIn(page_info.prices, "sinhala")))

\* lines 395-402 with the whole-page variant as the classifier
PageInfo_whole_page_variant(url, all_text) ==
    [url |-> url,
     language |-> DiscrepancyAnalyzer_detect_language(all_text),
     text |-> all_text,
     prices |-> extract_prices(all_text),
     package_details |-> extract_package_details(all_text),
     contact_info |-> extract_contact_info(all_text)]

\* lines 395-402: language and page_info of a page
PageInfo(url, all_text) ==
    [url |-> url,
     language |-> detect_language(all_text),
     text |-> all_text,
     prices |-> extract_prices(all_text),
     package_details |-> extract_package_details(all_text),
     contact_info |-> extract_contact_info(all_text)]

\* lines 383-402: the loop over self.data
PageInfos(d) == [i \in DOMAIN d |-> PageInfo(d[i].url, AllText(d[i]))]

\* lines 404-409: english_pages, sinhala_pages, mixed_pages in insertion order
Bucket(infos, language) == SelectSeq(infos, LAMBDA info : info.language = language)

\* lines 415-416
MixedOutcomes(mixed_pages) ==
    [k \in DOMAIN mixed_pages |->
        check_mixed_language_consistency(mixed_pages[k].url, mixed_pages[k])]

\* lines 412-416: the steps the phase takes, up to the first exception
TranslationSteps(infos) ==
    UntilRaised(compare_cross_language_consistency(Bucket(infos, "english"),
                                                   Bucket(infos, "sinhala"))
                    \o MixedOutcomes(Bucket(infos, "mixed")))

\* the bucket each page went to ("none" for a page in no bucket)
BucketOf(language) ==
    IF language \in {"english", "sinhala", "mixed"} THEN language ELSE "none"

\* what analyze_translation_consistency computes from the page infos
TranslationRun(infos) ==
    [buckets |-> [i \in DOMAIN infos |-> BucketOf(infos[i].language)],
     steps   |-> TranslationSteps(infos)]

TranslationOutcomes(d) == TranslationRun(PageInfos(d))

\* ContentConsistencyAnalyzer.analyze_translation_consistency
analyze_translation_consistency ==
    /\ calls < MaxCalls
    /\ trace' = [phase |-> "translation",
                 run |-> TranslationOutcomes(data),
                 before |-> Len(inconsistencies.translation_mismatches)]
    /\ inconsistencies' =
         [inconsistencies EXCEPT
            !.translation_mismatches = @ \o OutcomeRecords(trace'.run.steps)]
    /\ raised' = IF OutcomeRaised(trace'.run.steps) THEN "ZeroDivisionError" ELSE "none"
    /\ calls' = calls + 1
    /\ UNCHANGED <<data, sample, text, result, pages_content, futures, contradictions>>

(***************************************************************************)
(* Contact phase                                                           *)
(***************************************************************************)
\* lines 547-552
PagePhones(url, phone_numbers) ==
    [k \in DOMAIN phone_numbers |->
        [url |-> url, number |-> phone_numbers[k].number, context |-> phone_numbers[k].context]]

\* lines 554-559
PageEmails(url, email_addresses) ==
    [k \in DOMAIN email_addresses |->
        [url |-> url, email |-> email_addresses[k].email,
         context |-> email_addresses[k].context]]

\* lines 532-544: the contact info of every page
ContactInfos(d) ==
    [i \in DOMAIN d |-> [url |-> d[i].url, contact_info |-> extract_contact_info(AllText(d[i]))]]

\* all_contacts['phones'], all_contacts['emails']
AllPhones(infos) ==
    Flatten([i \in DOMAIN infos |-> PagePhones(infos[i].url, infos[i].contact_info.phone_numbers)])
AllEmails(infos) ==
    Flatten([i \in DOMAIN infos |-> PageEmails(infos[i].url, infos[i].contact_info.email_addresses)])

\* the threshold of lines 564 and 574
MaxContacts == 3

\* lines 562-570 with three distinct numbers already reported
PhoneRecords_at_least_three(phones, unique_phones) ==
    IF phones # <<>> /\ Cardinality(unique_phones) >= MaxContacts
    THEN <<[type |-> "multiple_phone_numbers", count |-> Cardinality(unique_phones),
            numbers |-> unique_phones, details |-> phones]>>
    ELSE <<>>

\* lines 562-570
PhoneRecords(phones, unique_phones) ==
    IF phones # <<>> /\ Cardinality(unique_phones) > MaxContacts
    THEN <<[type |-> "multiple_phone_numbers", count |-> Cardinality(unique_phones),
            numbers |-> unique_phones, details |-> phones]>>
    ELSE <<>>

\* lines 572-580
EmailRecords(emails, unique_emails) ==
    IF emails # <<>> /\ Cardinality(unique_emails) > MaxContacts
    THEN <<[type |-> "multiple_email_addresses", count |-> Cardinality(unique_emails),
            emails |-> unique_emails, details |-> emails]>>
    ELSE <<>>

\* lines 561-580
ContactRecords(phones, emails) ==
    PhoneRecords(phones, {phones[k].number : k \in DOMAIN phones})
        \o EmailRecords(emails, {emails[k].email : k \in DOMAIN emails})

ContactRun(infos) == [records |-> ContactRecords(AllPhones(infos), AllEmails(infos))]

\* what analyze_contact_consistency computes from self.data
ContactOutcomes(d) == ContactRun(ContactInfos(d))

\* ContentConsistencyAnalyzer.analyze_contact_consistency
analyze_contact_consistency ==
    /\ calls < MaxCalls
    /\ trace' = [phase |-> "contact",
                 run |-> ContactOutcomes(data),
                 before |-> Len(inconsistencies.contact_info_discrepancies)]
    /\ inconsistencies' =
         [inconsistencies EXCEPT !.contact_info_discrepancies = @ \o trace'.run.records]
    /\ raised' = "none"
    /\ calls' = calls + 1
    /\ UNCHANGED <<data, sample, text, result, pages_content, futures, contradictions>>

(***************************************************************************)
(* The complete analysis                                                   *)
(***************************************************************************)
\* lines 588-589 after the first two phases
AfterPackage(d, pricing, package, steps) ==
    [pricing |-> pricing, package |-> package,
     translation |-> OutcomeRecords(steps),
     contact |-> IF OutcomeRaised(steps) THEN <<>> ELSE ContactOutcomes(d).records,
     raised |-> IF OutcomeRaised(steps) THEN "ZeroDivisionError" ELSE "none",
     phases |-> IF OutcomeRaised(steps) THEN <<"pricing", "package", "translation">>
                ELSE <<"pricing", "package", "translation", "contact">>]

\* lines 587-589 left as well when the pricing phase found nothing
AfterPricing_stops_when_nothing_found(d, outcomes) ==
    IF OutcomeRaised(outcomes) \/ OutcomeRecords(outcomes) = <<>>
    THEN [pricing |-> OutcomeRecords(outcomes), package |-> <<>>, translation |-> <<>>,
          contact |-> <<>>,
          raised |-> IF OutcomeRaised(outcomes) THEN "ZeroDivisionError" ELSE "none",
          phases |-> <<"pricing">>]
    ELSE AfterPackage(d, OutcomeRecords(outcomes), PackageOutcomes(d).records,
                      TranslationOutcomes(d).steps)

\* lines 587-589 after the pricing phase: an exception of the pricing phase
\* leaves analyze_all_inconsistencies; `phases` lists the phases entered
AfterPricing(d, outcomes) ==
    IF OutcomeRaised(outcomes)
    THEN [pricing |-> OutcomeRecords(outcomes), package |-> <<>>, translation |-> <<>>,
          contact |-> <<>>, raised |-> "ZeroDivisionError", phases |-> <<"pricing">>]
    ELSE AfterPackage(d, OutcomeRecords(outcomes), PackageOutcomes(d).records,
                      TranslationOutcomes(d).steps)

\* what analyze_all_inconsistencies appends to each list
AllOutcomes(d) == AfterPricing(d, PricingOutcomes(d).outcomes)

\* ContentConsistencyAnalyzer.analyze_all_inconsistencies: the four phases in
\* order on the lists the instance holds
analyze_all_inconsistencies ==
    /\ calls < MaxCalls
    /\ trace' = [phase |-> "all", run |-> AllOutcomes(data), before |-> inconsistencies]
    /\ inconsistencies' =
         [inconsistencies EXCEPT
            !.pricing_discrepancies = @ \o trace'.run.pricing,
            !.package_details_discrepancies = @ \o trace'.run.package,
            !.translation_mismatches = @ \o trace'.run.translation,
            !.contact_info_discrepancies = @ \o trace'.run.contact]
    /\ raised' = trace'.run.raised
    /\ calls' = calls + 1
    /\ UNCHANGED <<data, sample, text, result, pages_content, futures, contradictions>>

\* generate_summary_stats with a total that leaves out the translation records
generate_summary_stats_total_without_translation(d, inc) ==
    [total_pages_analyzed |-> Len(d),
     total_inconsistencies |->
         Len(inc.pricing_discrepancies) + Len(inc.package_details_discrepancies)
             + Len(inc.contact_info_discrepancies),
     inconsistency_counts |->
         [pricing_discrepancies |-> Len(inc.pricing_discrepancies),
          translation_mismatches |-> Len(inc.translation_mismatches),
          package_details_discrepancies |-> Len(inc.package_details_discrepancies),
          contact_info_discrepancies |-> Len(inc.contact_info_discrepancies)]]

\* ContentConsistencyAnalyzer.generate_summary_stats
generate_summary_stats(d, inc) ==
    [total_pages_analyzed |-> Len(d),
     total_inconsistencies |->
         Len(inc.pricing_discrepancies) + Len(inc.translation_mismatches)
             + Len(inc.package_details_discrepancies) + Len(inc.contact_info_discrepancies),
     inconsistency_counts |->
         [pricing_discrepancies |-> Len(inc.pricing_discrepancies),
          translation_mismatches |-> Len(inc.translation_mismatches),
          package_details_discrepancies |-> Len(inc.package_details_discrepancies),
          contact_info_discrepancies |-> Len(inc.contact_info_discrepancies)]]

(***************************************************************************)
(* SpecLang: the two language classifiers applied to one text              *)
(***************************************************************************)
MaxLetters == 10
MaxOther   == 3
MaxSpaces  == 1

SinhalaSeq == <<"U0DBB", "U0DD4", "U0D9A">>
EnglishSeq == <<"a", "B", "z">>
OtherSeq   == <<"5", "U00E9", "\n", ".">>

TakeCycle(seq, n) == [i \in 1..n |-> seq[((i - 1) % Len(seq)) + 1]]

\* w spaces, s Sinhala letters, e ASCII letters, o other characters, w spaces
LangText(p) ==
    TakeCycle(<<" ">>, p.w) \o TakeCycle(SinhalaSeq, p.s) \o TakeCycle(EnglishSeq, p.e)
        \o TakeCycle(OtherSeq, p.o) \o TakeCycle(<<" ">>, p.w)

InitLang ==
    /\ IdleAnalyzer
    /\ sample \in [s : 0..MaxLetters, e : 0..MaxLetters, o : 0..MaxOther, w : 0..MaxSpaces]
    /\ text = LangText(sample)
    /\ result = NoResult

CallDetectLanguage ==
    /\ result.fn = "none"
    /\ result' = [fn |-> "detect_language", value |-> detect_language(text)]
    /\ UNCHANGED <<data, inconsistencies, raised, calls, trace, sample, text,
                   pages_content, futures, contradictions>>

CallDiscrepancyAnalyzerDetectLanguage ==
    /\ result.fn = "none"
    /\ result' = [fn |-> "DiscrepancyAnalyzer.detect_language",
                  value |-> DiscrepancyAnalyzer_detect_language(text)]
    /\ UNCHANGED <<data, inconsistencies, raised, calls, trace, sample, text,
                   pages_content, futures, contradictions>>

NextLang == CallDetectLanguage \/ CallDiscrepancyAnalyzerDetectLanguage

SpecLang == InitLang /\ [][NextLang]_vars

\* the counts a classification is defined by, read off the text
SinhalaCount(t) == Cardinality({i \in DOMAIN t : IsSinhala(t[i])})
EnglishCount(t) == Cardinality({i \in DOMAIN t : IsAsciiAlpha(t[i])})
NonSpaceCount(t) == Cardinality({i \in DOMAIN t : t[i] # " "})
IsBlank(t) == \A i \in DOMAIN t : IsSpace(t[i])

\* C1: detect_language returns 'empty' for a blank text, 'no_text' for a text
\* without Sinhala and ASCII letters, and otherwise, with the ratios over the sum
\* of the two counts: 'sinhala' above 0.7 Sinhala, else 'english' above 0.7
\* English, else 'mixed' if both ratios exceed 0.1, else 'other'; 8 Sinhala
\* letters and no Latin letter give 'sinhala', an even split gives 'mixed'.
C1_DetectLanguageContract ==
    result.fn = "detect_language" =>
        LET s == SinhalaCount(text)
            e == EnglishCount(text)
        IN  /\ IsBlank(text) => result.value = "empty"
            /\ ~IsBlank(text) /\ s + e = 0 => result.value = "no_text"
            /\ ~IsBlank(text) /\ s + e > 0 =>
                 /\ 10 * s > 7 * (s + e) => result.value = "sinhala"
                 /\ 10 * s <= 7 * (s + e) /\ 10 * e > 7 * (s + e) => result.value = "english"
                 /\ 10 * s <= 7 * (s + e) /\ 10 * e <= 7 * (s + e)
                      /\ 10 * s > s + e /\ 10 * e > s + e => result.value = "mixed"
                 /\ 10 * s <= 7 * (s + e) /\ 10 * e <= 7 * (s + e)
                      /\ ~(10 * s > s + e /\ 10 * e > s + e) => result.value = "other"
            /\ s = 8 /\ e = 0 => result.value = "sinhala"
            /\ s = e /\ s > 0 => result.value = "mixed"

\* C1 witness: a text with 8 Sinhala letters, no Latin letter and some other
\* characters was classified 'sinhala'.
C1_Witness ==
    /\ result.fn = "detect_language"
    /\ SinhalaCount(text) = 8 /\ EnglishCount(text) = 0 /\ Len(text) > 8
    /\ result.value = "sinhala"

\* the verdict the whole-page variant would give with ratios over a denominator
WholePageVerdict(s, e, total) ==
    IF 10 * s > total THEN (IF s > e THEN "sinhala" ELSE "mixed")
    ELSE IF 2 * e > total THEN "english"
    ELSE "mixed"

\* C3 as stated: for a non-empty text with at least one letter the whole-page
\* variant decides by the Sinhala and ASCII-letter counts each divided by their sum.
C3_Original_RatiosOverLetterSum ==
    result.fn = "DiscrepancyAnalyzer.detect_language"
        /\ SinhalaCount(text) + EnglishCount(text) > 0 =>
            result.value = WholePageVerdict(SinhalaCount(text), EnglishCount(text),
                                            SinhalaCount(text) + EnglishCount(text))

\* C3 amended: for a non-empty text with at least one letter the whole-page
\* variant decides by the Sinhala and ASCII-letter counts each divided by the
\* number of characters of the text that are not U+0020 spaces: sinhala-or-mixed
\* above 0.1 Sinhala (sinhala when the Sinhala count exceeds the English one),
\* else 'english' above 0.5 English, else 'mixed'.
C3_RatiosOverNonSpaceLength ==
    result.fn = "DiscrepancyAnalyzer.detect_language"
        /\ SinhalaCount(text) + EnglishCount(text) > 0 =>
            result.value = WholePageVerdict(SinhalaCount(text), EnglishCount(text),
                                            NonSpaceCount(text))

\* C3 witness: a text with letters whose verdict is not the one the letter-sum
\* ratios give (digits and punctuation count in the denominator).
C3_Witness ==
    /\ result.fn = "DiscrepancyAnalyzer.detect_language"
    /\ SinhalaCount(text) + EnglishCount(text) > 0
    /\ NonSpaceCount(text) > SinhalaCount(text) + EnglishCount(text)
    /\ result.value # WholePageVerdict(SinhalaCount(text), EnglishCount(text),
                                       SinhalaCount(text) + EnglishCount(text))

(***************************************************************************)
(* SpecPrice: extract_prices applied to one currency marker and one numeral *)
(***************************************************************************)
MaxThousands == 1
\* the digits of the whole rupees: the hundredths of a longer numeral do not
\* fit the 32-bit integers of the model checker
MaxDigits == 6

\* the supported markers, as they are written before or after the numeral
PriceMarkers == <<
    [side |-> "before", chars |-> <<"R", "s", ".", " ">>],
    [side |-> "before", chars |-> <<"R", "s", ".">>],
    [side |-> "before", chars |-> <<"R", "s", " ">>],
    [side |-> "before", chars |-> <<"L", "K", "R", " ">>],
    [side |-> "before", chars |-> <<"L", "K", "R">>],
    [side |-> "before", chars |-> <<"U0DBB", "U0DD4", ".", " ">>],
    [side |-> "before", chars |-> <<"U0DBB", "U0DD4", ".">>],
    [side |-> "after",  chars |-> <<"/", "-">>],
    [side |-> "after",  chars |-> <<" ", "/", "-">>],
    [side |-> "after",  chars |-> <<"/", "m", "o", "n", "t", "h">>],
    [side |-> "after",  chars |-> <<" ", "p", "e", "r", " ", "m", "o", "n", "t", "h">>],
    [side |-> "after",  chars |-> <<" ", "m", "o", "n", "t", "h", "l", "y">>] >>

LeadDigitChars == {"0", "1", "2"}
LeadDigits == UNION {[1..n -> LeadDigitChars] : n \in 1..3}
ThousandsGroups == {<<"5", "0", "0">>, <<"9", "9", "9">>, <<"0", "0", "0">>}
GroupLists == UNION {[1..n -> ThousandsGroups] : n \in 0..MaxThousands}
DecimalParts == {<<>>, <<"0", "0">>, <<"5", "0">>}

\* the numeral as written: lead digits, ",ddd" per group, ".dd" if any
NumeralText(p) ==
    p.lead \o Flatten([k \in DOMAIN p.groups |-> <<",">> \o p.groups[k]])
           \o (IF p.dec = <<>> THEN <<>> ELSE <<".">> \o p.dec)

PriceText(p) ==
    IF PriceMarkers[p.marker].side = "before"
    THEN PriceMarkers[p.marker].chars \o NumeralText(p)
    ELSE NumeralText(p) \o PriceMarkers[p.marker].chars

InitPrice ==
    /\ IdleAnalyzer
    /\ sample \in {p \in [marker : DOMAIN PriceMarkers, lead : LeadDigits,
                           groups : GroupLists, dec : DecimalParts] :
                        Len(p.lead) + 3 * Len(p.groups) <= MaxDigits}
    /\ text = PriceText(sample)
    /\ result = NoResult

CallExtractPrices ==
    /\ result.fn = "none"
    /\ result' = [fn |-> "extract_prices", value |-> extract_prices(text)]
    /\ UNCHANGED <<data, inconsistencies, raised, calls, trace, sample, text,
                   pages_content, futures, contradictions>>

NextPrice == CallExtractPrices

SpecPrice == InitPrice /\ [][NextPrice]_vars

RECURSIVE Pow(_, _)
Pow(b, n) == IF n = 0 THEN 1 ELSE b * Pow(b, n - 1)

RECURSIVE SumTo(_, _)
SumTo(f, n) == IF n = 0 THEN 0 ELSE f[n] + SumTo(f, n - 1)

\* the number a digit string denotes, by place value
PlaceValue(ds) == SumTo([i \in 1..Len(ds) |-> DigitMap[ds[i]] * Pow(10, Len(ds) - i)], Len(ds))

\* the numeral with the separators removed, in hundredths
NumeralHundredths(p) ==
    LET n == Len(p.groups)
        whole == PlaceValue(p.lead) * Pow(1000, n)
                   + SumTo([k \in 1..n |-> PlaceValue(p.groups[k]) * Pow(1000, n - k)], n)
    IN  100 * whole + (IF p.dec = <<>> THEN 0 ELSE PlaceValue(p.dec))

\* C4: for a text made of one supported marker and one numeral with thousands
\* separators and optional two decimals, extract_prices returns a fact whose
\* value is the numeral with the separators removed, and no fact of another
\* value ('Rs. 2,500.00' gives 2500.0 and '1,999/-' gives 1999.0).
C4_ExtractRecoversNumeral ==
    result.fn = "extract_prices" =>
        /\ result.value # <<>>
        /\ \A k \in DOMAIN result.value : result.value[k].value = NumeralHundredths(sample)
        /\ text = <<"R", "s", ".", " ", "2", ",", "5", "0", "0", ".", "0", "0">>
             => \A k \in DOMAIN result.value : result.value[k].value = 250000
        /\ text = <<"1", ",", "9", "9", "9", "/", "-">>
             => \A k \in DOMAIN result.value : result.value[k].value = 199900

\* C4 witness: 'Rs. 2,500.00' was extracted as the single fact 2500.00.
C4_Witness ==
    /\ result.fn = "extract_prices"
    /\ text = <<"R", "s", ".", " ", "2", ",", "5", "0", "0", ".", "0", "0">>
    /\ Len(result.value) = 1
    /\ result.value[1].value = 250000

(***************************************************************************)
(* SpecPricing: the pricing phase run on documents of price pages          *)
(***************************************************************************)
MaxPages == 3

\* the URL key of the i-th page of a document
PageUrl(i) == <<"/", "p", DigitSeq[(i % 10) + 1]>>

TextPage(chars) == [has |-> {"title", "text", "ocr_images"},
                    title |-> <<>>, text |-> chars, ocr_images |-> <<>>]

\* the pages the pricing documents are made of
PricingPages == <<
    \* Rs. 1,000
    TextPage(<<"R","s","."," ","1",",","0","0","0">>),
    \* Rs. 1,030 LKR 1,050
    TextPage(<<"R","s","."," ","1",",","0","3","0"," ","L","K","R"," ","1",",","0","5","0">>),
    \* Rs. 1,090
    TextPage(<<"R","s","."," ","1",",","0","9","0">>),
    \* Rs. 1,180
    TextPage(<<"R","s","."," ","1",",","1","8","0">>),
    \* Rs. 0
    TextPage(<<"R","s","."," ","0">>),
    \* Rs. 1,000 1,000/-
    TextPage(<<"R","s","."," ","1",",","0","0","0"," ","1",",","0","0","0","/","-">>),
    \* LKR 1,500 1,500/-
    TextPage(<<"L","K","R"," ","1",",","5","0","0"," ","1",",","5","0","0","/","-">>),
    \* title 'fiber', text '1,000/-', one image reading 'Rs. 1,500.00'
    [has |-> {"title", "text", "ocr_images"},
     title |-> <<"f","i","b","e","r">>,
     text |-> <<"1",",","0","0","0","/","-">>,
     ocr_images |-> << <<"R","s","."," ","1",",","5","0","0",".","0","0">> >>] >>

\* the document whose i-th page is pool[choice[i]]
Document(pool, choice) ==
    [i \in DOMAIN choice |->
        [url |-> PageUrl(i), has |-> pool[choice[i]].has, title |-> pool[choice[i]].title,
         text |-> pool[choice[i]].text, ocr_images |-> pool[choice[i]].ocr_images]]

\* ContentConsistencyAnalyzer.__init__ and load_data over a document
Constructed(pool) ==
    /\ IdleCrawler
    /\ sample \in UNION {[1..n -> DOMAIN pool] : n \in 0..MaxPages}
    /\ data = Document(pool, sample)
    /\ inconsistencies = EmptyInconsistencies
    /\ raised = "none"
    /\ calls = 0
    /\ trace = NoTrace
    /\ text = <<>>
    /\ result = NoResult

InitPricing == Constructed(PricingPages)

NextPricing == analyze_pricing_consistency

SpecPricing == InitPricing /\ [][NextPricing]_vars

PricingCall == trace.phase = "pricing"

\* |v - rep| / rep < 0.10
Near(v, rep) == rep # 0 /\ 10 * Abs(v - rep) < rep

\* the records the last pricing call appended
NewPricingRecords ==
    SubSeq(inconsistencies.pricing_discrepancies, trace.before + 1,
           Len(inconsistencies.pricing_discrepancies))

\* C5: clustering within a category is greedy first-match insertion: the facts
\* are taken in input order; a fact joins the first cluster, in creation order,
\* whose representative (its first-inserted member) is within 10% of it, later
\* clusters notwithstanding; a fact that no cluster takes opens a new cluster;
\* a cluster's representative never changes.
C5_GreedyFirstMatch ==
    PricingCall => \A k \in DOMAIN trace.run.outcomes :
        LET o == trace.run.outcomes[k]
            u == o.unique_prices
            placed == UNION {{u[g][j].pos : j \in DOMAIN u[g]} : g \in DOMAIN u}
        IN  o.clustered =>
            /\ \A g \in DOMAIN u : u[g] # <<>>
            /\ \E m \in 0..Len(o.prices) : placed = 1..m
            /\ SumTo([g \in DOMAIN u |-> Len(u[g])], Len(u)) = Cardinality(placed)
            /\ \A g \in DOMAIN u : \A j \in DOMAIN u[g] :
                 /\ o.prices[u[g][j].pos] = u[g][j]
                 /\ j > 1 => u[g][j - 1].pos < u[g][j].pos
                 /\ j > 1 => Near(u[g][j].price, u[g][1].price)
                 /\ \A h \in 1..(g - 1) :
                      /\ u[h][1].pos < u[g][1].pos
                      /\ ~Near(u[g][j].price, u[h][1].price)
            /\ \A n \in 1..(Len(o.prices) - 1) :
                 LET a == ClusterPrices(o.prices, n).unique_prices
                     b == ClusterPrices(o.prices, n + 1).unique_prices
                 IN  \A g \in DOMAIN a : g \in DOMAIN b /\ b[g][1] = a[g][1]

\* C5 witness: a fact joined a cluster although a cluster created later, and
\* before the fact came, is within 10% of it too.
C5_Witness ==
    /\ PricingCall
    /\ \E k \in DOMAIN trace.run.outcomes :
         LET u == trace.run.outcomes[k].unique_prices
         IN  \E g \in DOMAIN u : \E j \in 2..Len(u[g]) : \E h \in (g + 1)..Len(u) :
                /\ u[h][1].pos < u[g][j].pos
                /\ Near(u[g][j].price, u[h][1].price)

\* C6 as stated: any two facts of one cluster are within 10% of each other,
\* relative to the smaller of the two.
C6_Original_PairwiseWithinTolerance ==
    PricingCall => \A k \in DOMAIN trace.run.outcomes :
        LET u == trace.run.outcomes[k].unique_prices
        IN  \A g \in DOMAIN u : \A i, j \in DOMAIN u[g] :
                i # j => Near(Max(u[g][i].price, u[g][j].price),
                              Min(u[g][i].price, u[g][j].price))

\* C6 amended: every fact of a cluster other than its representative r (the
\* first-inserted member) is within 10% of the representative, |a - r| / r < 0.10.
C6_WithinToleranceOfRepresentative ==
    PricingCall => \A k \in DOMAIN trace.run.outcomes :
        LET u == trace.run.outcomes[k].unique_prices
        IN  \A g \in DOMAIN u : \A j \in 2..Len(u[g]) :
                Near(u[g][j].price, u[g][1].price)

\* C6 witness: two facts of one cluster, neither its representative, that are
\* more than 10% apart.
C6_Witness ==
    /\ PricingCall
    /\ \E k \in DOMAIN trace.run.outcomes :
         LET u == trace.run.outcomes[k].unique_prices
         IN  \E g \in DOMAIN u : \E i, j \in 2..Len(u[g]) :
                /\ Near(u[g][i].price, u[g][1].price)
                /\ Near(u[g][j].price, u[g][1].price)
                /\ ~Near(Max(u[g][i].price, u[g][j].price),
                         Min(u[g][i].price, u[g][j].price))

\* what C7 says of one category, given the records appended for it: one record
\* if its clusters are more than one and (max - min) / min > 0.2 over the
\* representatives, none otherwise
C7_CategoryRule(prices, records) ==
    LET u == ClusterPrices(prices, Len(prices)).unique_prices
        reps == [g \in DOMAIN u |-> u[g][1].price]
    IN  IF Len(prices) > 1 /\ Len(u) > 1 /\ SeqMin(reps) # 0
           /\ 5 * (SeqMax(reps) - SeqMin(reps)) > SeqMin(reps)
        THEN Len(records) = 1 ELSE Len(records) = 0

\* the examples of C7, for a category's prices in rupees
C7_Examples(rupees, records) ==
    /\ rupees = <<1000, 1030, 1050>> => records = <<>>
    /\ rupees = <<1000, 1000, 1000, 1500, 1500>> =>
         /\ Len(records) = 1
         /\ records[1].price_range = [min |-> 1000, max |-> 1500]
         /\ records[1].difference_percentage = 500
         /\ [g \in 1..2 |-> records[1].occurrences[g].count] = <<3, 2>>

\* the records the last pricing call appended for one category
NewRecordsOf(cat) == SelectSeq(NewPricingRecords, LAMBDA r : r.category = cat)

C7_Rule(infos) ==
    \A k \in DOMAIN trace.run.keys :
        LET cat == trace.run.keys[k]
            prices == PriceGroup(infos, cat)
        IN  /\ C7_CategoryRule(prices, NewRecordsOf(cat))
            /\ C7_Examples([i \in DOMAIN prices |-> prices[i].price \div 100],
                           NewRecordsOf(cat))

\* C7 as stated: for every price category the pricing phase emits exactly one
\* PricingDiscrepancy if the category has more than one cluster and the spread
\* of the representatives exceeds 20%, and none otherwise; {1000, 1030, 1050}
\* gives no record and {1000 x3, 1500 x2} one record (1000, 1500, 50.0%, 3 and 2).
C7_Original_OneRecordPerSpreadCategory ==
    PricingCall => C7_Rule(AllPriceInfos(data))

\* C7 in the calls that no exception left: the rule holds of every category.
C7_RuleWhenNoException ==
    PricingCall /\ raised = "none" => C7_Rule(AllPriceInfos(data))

\* C7: the example {1000 x3, 1500 x2} is reached and reported once.
C7_ExampleReached ==
    /\ PricingCall
    /\ \E k \in DOMAIN trace.run.outcomes :
         /\ [i \in DOMAIN trace.run.outcomes[k].prices |->
                trace.run.outcomes[k].prices[i].price] = <<100000, 100000, 100000, 150000, 150000>>
         /\ Len(trace.run.outcomes[k].records) = 1

\* C8 as stated: a price of zero never causes a division by zero; the pricing
\* phase does not raise and completes for every input with a zero price.
C8_Original_ZeroPriceNeverRaises ==
    PricingCall => raised = "none"


(***************************************************************************)
(* SpecPackage: the package phase over documents of up to MaxPages pages   *)
(***************************************************************************)
\* the pages the package documents are made of
PackagePages == <<
    \* fiber 1 Mbps
    TextPage(<<"f","i","b","e","r"," ","1"," ","M","b","p","s">>),
    \* Fiber 2Mbps
    TextPage(<<"F","i","b","e","r"," ","2","M","b","p","s">>),
    \* fiber 1.0 mbps 5 GB
    TextPage(<<"f","i","b","e","r"," ","1",".","0"," ","m","b","p","s"," ","5"," ","G","B">>),
    \* fiber 1 Mbps 2 Mbps
    TextPage(<<"f","i","b","e","r"," ","1"," ","M","b","p","s"," ","2"," ","M","b","p","s">>),
    \* unlimited data 1 Mbps
    TextPage(<<"u","n","l","i","m","i","t","e","d"," ","d","a","t","a"," ","1"," ","M","b","p","s">>),
    \* unlimited 5GB 2 Mbps
    TextPage(<<"u","n","l","i","m","i","t","e","d"," ","5","G","B"," ","2"," ","M","b","p","s">>),
    \* text '1 Mbps' and no feature keyword
    TextPage(<<"1"," ","M","b","p","s">>),
    \* title 'adsl 4G', no 'text' key, images reading '' and '1.5 GB/s'
    [has |-> {"title", "ocr_images"}, title |-> <<"a","d","s","l"," ","4","G">>, text |-> <<>>,
     ocr_images |-> << <<>>, <<"1",".","5"," ","G","B","/","s">> >>] >>

InitPackage == Constructed(PackagePages)

NextPackage == analyze_package_consistency

SpecPackage == InitPackage /\ [][NextPackage]_vars

PackageCall == trace.phase = "package"

\* the records the last call appended
NewPackageRecords ==
    SubSeq(inconsistencies.package_details_discrepancies, trace.before + 1,
           Len(inconsistencies.package_details_discrepancies))

\* how many records of a type the last call appended for a feature group
RecordCount(type, feature_key) ==
    Cardinality({k \in DOMAIN NewPackageRecords :
        NewPackageRecords[k].type = type /\ NewPackageRecords[k].feature_group = feature_key})

\* the distinct speed values of a group's pages
GroupSpeeds(group) ==
    UNION {{group.packages[k].speeds[j].value : j \in DOMAIN group.packages[k].speeds} :
           k \in DOMAIN group.packages}

\* the distinct data-cap representations of a group's pages: the numeric values,
\* and the sentinel -1 for 'unlimited'
GroupDataCaps(group) ==
    UNION {{IF "type" \in DOMAIN group.packages[k].data_limits[j] THEN -1
            ELSE group.packages[k].data_limits[j].value :
                j \in DOMAIN group.packages[k].data_limits} :
           k \in DOMAIN group.packages}

\* a record of each type iff the group has more than one distinct value
RecordsMatchValues(group) ==
    /\ RecordCount("speed_inconsistency", group.feature_key)
         = (IF Cardinality(GroupSpeeds(group)) > 1 THEN 1 ELSE 0)
    /\ RecordCount("data_limit_inconsistency", group.feature_key)
         = (IF Cardinality(GroupDataCaps(group)) > 1 THEN 1 ELSE 0)

\* the feature keywords that occur in a page's text
PageFeatures(page) ==
    {FeatureKeywords[f] : f \in {f \in DOMAIN FeatureKeywords :
                                    Contains(Lower(AllText(page)), FeatureKeywords[f])}}

\* each page's keyword set with the groups its URL was filed in
PageGroups ==
    {<<PageFeatures(data[i]),
       {g \in DOMAIN trace.run.groups :
           \E k \in DOMAIN trace.run.groups[g].packages :
               trace.run.groups[g].packages[k].url = data[i].url}>> : i \in DOMAIN data}

\* the groups are the classes of the pages with a non-empty keyword set under
\* equality of the sets
GroupsAreFeatureSets ==
    \A p, q \in PageGroups :
        /\ Cardinality(p[2]) = (IF p[1] = {} THEN 0 ELSE 1)
        /\ (p[1] # {} /\ q[1] # {}) => ((p[2] = q[2]) <=> (p[1] = q[1]))

\* C10 as stated: for every feature group, a speed_inconsistency record iff its
\* pages' speeds have more than one distinct value, and a
\* data_limit_inconsistency record iff its data caps have more than one distinct
\* representation ('unlimited' distinct from every number), without tolerance.
C10_Original_RecordIffDistinctValues ==
    PackageCall =>
        \A g \in DOMAIN trace.run.groups : RecordsMatchValues(trace.run.groups[g])

\* C10: the feature groups are the classes of pages with the same non-empty
\* keyword set; a group of more than one page gets a speed_inconsistency record
\* iff its speeds have more than one distinct value and a
\* data_limit_inconsistency record iff its data caps have more than one distinct
\* representation ('unlimited' distinct from every number), without tolerance;
\* a group of a single page gets no record.
C10_RecordIffDistinctValuesAcrossPages ==
    PackageCall =>
        /\ GroupsAreFeatureSets
        /\ \A g \in DOMAIN trace.run.groups :
              IF Len(trace.run.groups[g].packages) > 1
              THEN RecordsMatchValues(trace.run.groups[g])
              ELSE /\ RecordCount("speed_inconsistency", trace.run.groups[g].feature_key) = 0
                   /\ RecordCount("data_limit_inconsistency", trace.run.groups[g].feature_key) = 0
        /\ Len(NewPackageRecords)
             = Cardinality({g \in DOMAIN trace.run.groups :
                              RecordCount("speed_inconsistency", trace.run.groups[g].feature_key) = 1})
               + Cardinality({g \in DOMAIN trace.run.groups :
                              RecordCount("data_limit_inconsistency", trace.run.groups[g].feature_key) = 1})

\* a call over 'unlimited data 1 Mbps', 'unlimited 5GB 2 Mbps' and a page of
\* another group: both records for the group of two, the data one listing
\* 'unlimited' next to '5.0'
C10_Witness ==
    /\ PackageCall
    /\ Len(data) = 3
    /\ Len(trace.run.groups) = 2
    /\ \E g \in DOMAIN trace.run.groups :
          /\ Len(trace.run.groups[g].packages) = 2
          /\ GroupSpeeds(trace.run.groups[g]) = {100, 200}
          /\ GroupDataCaps(trace.run.groups[g]) = {-1, 500}
          /\ \E k \in DOMAIN NewPackageRecords :
                /\ NewPackageRecords[k].type = "data_limit_inconsistency"
                /\ NewPackageRecords[k].feature_group = trace.run.groups[g].feature_key
                /\ NewPackageRecords[k].data_variations = {Unlimited, <<"5", ".", "0">>}
          /\ RecordCount("speed_inconsistency", trace.run.groups[g].feature_key) = 1


(***************************************************************************)
(* SpecTranslation: the translation phase run on documents of pages in     *)
(* several languages                                                       *)
(***************************************************************************)
UrlPage(url, chars) == [url |-> url, has |-> {"text"}, title |-> <<>>, text |-> chars,
                        ocr_images |-> <<>>]

\* the pages the translation documents are made of, each under its URL key
LanguagePages == <<
    \* price Rs. 100 only
    UrlPage(<<"/","e","n","/","a">>, <<"p","r","i","c","e"," ","R","s","."," ","1","0","0"," ","o","n","l","y">>),
    \* (Sinhala) ru 106 ka ka
    UrlPage(<<"/","s","i","/","a">>, <<"U0DBB","U0DD4"," ","1","0","6"," ","U0D9A","U0D9A">>),
    \* Rs. 1,000
    UrlPage(<<"/","b">>, <<"R","s","."," ","1",",","0","0","0">>),
    \* 1,000/-
    UrlPage(<<"/","c">>, <<"1",",","0","0","0","/","-">>),
    \* a page without title, text and images
    [url |-> <<"/","d">>, has |-> {}, title |-> <<>>, text |-> <<>>, ocr_images |-> <<>>],
    \* ab (Sinhala) ka ka ru 5 fiber: Sinhala and Latin letters side by side
    UrlPage(<<"/","s","i","/","b">>, <<"a","b"," ","U0D9A","U0D9A"," ","U0DBB","U0DD4"," ","5">>),
    \* price Rs. 0 only fiber
    UrlPage(<<"/","e","n","/","c">>, <<"p","r","i","c","e"," ","R","s","."," ","0"," ","o","n","l","y">>),
    \* (Sinhala) ru 0 ka
    UrlPage(<<"/","s","i","/","c">>, <<"U0DBB","U0DD4"," ","0"," ","U0D9A">>) >>

\* the sequences of at most MaxPages different pages of a pool
Choices(pool) ==
    UNION {{c \in [1..n -> DOMAIN pool] : \A i, j \in 1..n : i # j => c[i] # c[j]}
              : n \in 0..MaxPages}

\* ContentConsistencyAnalyzer.__init__ and load_data over a document whose keys
\* are the URLs of the pages
Loaded(pool) ==
    /\ IdleCrawler
    /\ sample \in Choices(pool)
    /\ data = [i \in DOMAIN sample |-> pool[sample[i]]]
    /\ inconsistencies = EmptyInconsistencies
    /\ raised = "none"
    /\ calls = 0
    /\ trace = NoTrace
    /\ text = <<>>
    /\ result = NoResult

InitTranslation == Loaded(LanguagePages)

NextTranslation == analyze_translation_consistency

SpecTranslation == InitTranslation /\ [][NextTranslation]_vars

\* the verdict of the whole-page variant from the counts of a text
SecondVariantVerdict(t) ==
    IF NonSpaceCount(t) = 0 THEN "unknown"
    ELSE WholePageVerdict(SinhalaCount(t), EnglishCount(t), NonSpaceCount(t))

\* the bucket the short-context variant gives from the counts s and e of a text
FirstVariantBucket(blank, s, e) ==
    IF blank \/ s + e = 0 THEN "none"
    ELSE IF 10 * s > 7 * (s + e) THEN "sinhala"
    ELSE IF 10 * e > 7 * (s + e) THEN "english"
    ELSE IF 10 * s > s + e /\ 10 * e > s + e THEN "mixed"
    ELSE "none"

Pages == <<
    \* price Rs. 100 only
    UrlPage(<<"/","e","n","/","a">>, <<"p","r","i","c","e"," ","R","s","."," ","1","0","0"," ","o","n","l","y">>),
    \* (Sinhala) ru 106 ka ka
    UrlPage(<<"/","s","i","/","a">>, <<"U0DBB","U0DD4"," ","1","0","6"," ","U0D9A","U0D9A">>),
    \* Rs. 1,000 fiber 1 Mbps
    UrlPage(<<"/","b">>, <<"R","s","."," ","1",",","0","0","0"," ","f","i","b","e","r"," ","1"," ","M","b","p","s">>),
    \* Rs. 1,180 fiber 2 Mbps
    UrlPage(<<"/","c">>, <<"R","s","."," ","1",",","1","8","0"," ","f","i","b","e","r"," ","2"," ","M","b","p","s">>),
    \* Rs. 0
    UrlPage(<<"/","d">>, <<"R","s","."," ","0">>),
    \* title 'call 011-1234567', text 'a@b.co c@d.co e@f.co g@h.co'
    [url |-> <<"/","e">>, has |-> {"title", "text"}, title |-> <<"c","a","l","l"," ","0","1","1","-","1","2","3","4","5","6","7">>,
     text |-> <<"a","@","b",".","c","o"," ","c","@","d",".","c","o"," ","e","@","f",".","c","o"," ","g","@","h",".","c","o">>, ocr_images |-> <<>>] >>

Init == Loaded(Pages)

Next ==
    \/ analyze_pricing_consistency
    \/ analyze_package_consistency
    \/ analyze_translation_consistency
    \/ analyze_contact_consistency
    \/ analyze_all_inconsistencies

Spec == Init /\ [][Next]_vars

\* C9 as stated: a second complete run of analyze_all_inconsistencies on the
\* instance that a first complete run left, over the same collection, leaves the
\* per-category discrepancy lists and the summary counts as the first run
\* produced them.
C9_Original_SecondRunSameReport ==
    [][(/\ trace.phase = "all" /\ trace.before = EmptyInconsistencies /\ raised = "none"
        /\ analyze_all_inconsistencies /\ raised' = "none")
         => /\ inconsistencies' = inconsistencies
            /\ generate_summary_stats(data', inconsistencies')
                 = generate_summary_stats(data, inconsistencies)]_vars


(***************************************************************************)
(* SpecUnits: extract_package_details applied to one numeral and one unit  *)
(***************************************************************************)
\* the digits before the decimal point of a numeral
MaxWhole == 2

\* the units as they are written after the numeral
Units == << <<"M","b","p","s">>, <<"m","b","p","s">>, <<"M","B","/","s">>, <<"G","B","/","s">>, <<"G","B">>, <<"T","B">>, <<"g","b">>, <<"T","b">> >>

WholeDigitChars == {"0", "1", "5"}
WholeParts == UNION {[1..n -> WholeDigitChars] : n \in 1..MaxWhole}
FractionParts == {<<>>, <<"5">>, <<"2", "5">>}
UnitGaps == {<<>>, <<" ">>}

\* the text of a quantity: numeral, gap, unit
QuantityText(q) ==
    q.whole \o (IF q.frac = <<>> THEN <<>> ELSE <<".">> \o q.frac) \o q.gap \o Units[q.unit]

InitUnits ==
    /\ IdleAnalyzer
    /\ sample \in [whole : WholeParts, frac : FractionParts, gap : UnitGaps, unit : DOMAIN Units]
    /\ text = QuantityText(sample)
    /\ result = NoResult

CallExtractPackageDetails ==
    /\ result.fn = "none"
    /\ result' = [fn |-> "extract_package_details", value |-> extract_package_details(text)]
    /\ UNCHANGED <<data, inconsistencies, raised, calls, trace, sample, text,
                   pages_content, futures, contradictions>>

NextUnits == CallExtractPackageDetails

SpecUnits == InitUnits /\ [][NextUnits]_vars

\* the numeral as written, in hundredths
QuantityHundredths(q) ==
    100 * PlaceValue(q.whole)
        + (IF q.frac = <<>> THEN 0
           ELSE IF Len(q.frac) = 1 THEN 10 * PlaceValue(q.frac) ELSE PlaceValue(q.frac))

\* C11 as stated: the values are normalized to Mbps and GB, so a positive
\* numeral written with TB gives a data-cap value other than the one the same
\* numeral gives with GB (the numeral itself), and written with GB/s a speed
\* value other than the one it gives with Mbps (the numeral itself).
C11_Original_UnitsNormalized ==
    result.fn = "extract_package_details" /\ QuantityHundredths(sample) > 0 =>
        /\ Lower(Units[sample.unit]) = <<"t","b">> =>
              \A k \in DOMAIN result.value.data_limits :
                  result.value.data_limits[k].value # QuantityHundredths(sample)
        /\ Lower(Units[sample.unit]) = <<"g","b","/","s">> =>
              \A k \in DOMAIN result.value.speeds :
                  result.value.speeds[k].value # QuantityHundredths(sample)


(***************************************************************************)
(* SpecPairing: might_be_translations applied to two page infos            *)
(***************************************************************************)
\* the prices of a page
MaxPrices == 3

PairingUrls == << <<"/","e","n","/","a">>, <<"/","s","i","/","a">>, <<"/","a">>, <<"/","e","n","/","b">>, <<"/","e","n","/","e","n","/","b">>, <<"/","b","/","s","i">> >>

\* the feature lists of a page, in the order of feature_keywords
PairingFeatures == <<
    <<>>,
    << <<"f","i","b","e","r">> >>,
    << <<"a","d","s","l">> >>,
    << <<"f","i","b","e","r">>, <<"a","d","s","l">> >>,
    << <<"f","i","b","e","r">>, <<"a","d","s","l">>, <<"w","i","f","i">> >>,
    << <<"w","i","f","i">> >> >>

\* a page_info with n prices and the features of the list
PairingInfo(n, features) ==
    [text |-> <<>>,
     prices |-> [k \in 1..n |-> [value |-> 100 * k, original |-> IntStr(k), context |-> <<>>]],
     package_details |->
         [speeds |-> <<>>, data_limits |-> <<>>,
          features |-> [k \in DOMAIN features |->
                           [feature |-> features[k], context |-> features[k]]]],
     contact_info |-> [phone_numbers |-> <<>>, email_addresses |-> <<>>, addresses |-> <<>>]]

PairingSide == [url : DOMAIN PairingUrls, prices : 0..MaxPrices, features : DOMAIN PairingFeatures]

InitPairing ==
    /\ IdleAnalyzer
    /\ sample \in [one : PairingSide, two : PairingSide]
    /\ text = <<>>
    /\ result = NoResult

CallMightBeTranslations ==
    /\ result.fn = "none"
    /\ result' = [fn |-> "might_be_translations",
                  value |-> might_be_translations(
                      PairingUrls[sample.one.url], PairingUrls[sample.two.url],
                      PairingInfo(sample.one.prices, PairingFeatures[sample.one.features]),
                      PairingInfo(sample.two.prices, PairingFeatures[sample.two.features]))]
    /\ UNCHANGED <<data, inconsistencies, raised, calls, trace, sample, text,
                   pages_content, futures, contradictions>>

NextPairing == CallMightBeTranslations

SpecPairing == InitPairing /\ [][NextPairing]_vars

\* the offsets at which seg occurs in url
Occurrences(url, seg) == {i \in 0..(Len(url) - Len(seg)) : Slice(url, i, i + Len(seg)) = seg}

\* url with the occurrences of the path segment seg, taken from the left
\* without overlap, reduced to '/'
RECURSIVE Erase(_, _)
Erase(url, seg) ==
    IF Occurrences(url, seg) = {} THEN url
    ELSE Slice(url, 0, Least(Occurrences(url, seg))) \o <<"/">>
            \o Erase(Slice(url, Least(Occurrences(url, seg)) + Len(seg), Len(url)), seg)

\* the URLs of the two pages are equal once '/en/' and then '/si/' are erased
SameStructure == Erase(Erase(PairingUrls[sample.one.url], <<"/","e","n","/">>), <<"/","s","i","/">>)
                   = Erase(Erase(PairingUrls[sample.two.url], <<"/","e","n","/">>), <<"/","s","i","/">>)

\* the feature-keyword sets of the two pages
FeaturesOne == SeqSet(PairingFeatures[sample.one.features])
FeaturesTwo == SeqSet(PairingFeatures[sample.two.features])

\* more than half of the union of the feature sets is shared
HalfShared ==
    /\ FeaturesOne \cup FeaturesTwo # {}
    /\ 2 * Cardinality(FeaturesOne \cap FeaturesTwo) > Cardinality(FeaturesOne \cup FeaturesTwo)

\* C12: might_be_translations returns true for every pair of pages whose URLs
\* are equal after erasing '/en/' and '/si/' (each occurrence, from the left and
\* without overlap, reduced to '/'), whatever their prices and features, pages
\* without prices and features included.
C12_SameStructurePairs ==
    result.fn = "might_be_translations" /\ SameStructure => result.value = TRUE

\* C12 witness: '/en/a' and '/si/a', both without prices and features, were paired.
C12_Witness ==
    /\ result.fn = "might_be_translations"
    /\ PairingUrls[sample.one.url] = <<"/","e","n","/","a">> /\ PairingUrls[sample.two.url] = <<"/","s","i","/","a">>
    /\ sample.one.prices = 0 /\ sample.two.prices = 0
    /\ FeaturesOne = {} /\ FeaturesTwo = {}
    /\ result.value = TRUE

\* C13 as stated: for pages whose URLs are not structurally equivalent and
\* whose features do not overlap by more than half, might_be_translations is
\* true if both pages have a price and the counts differ by at most 1, and false
\* if either page has no price.
C13_Original_BothPagesHavePrices ==
    result.fn = "might_be_translations" /\ ~SameStructure /\ ~HalfShared =>
        /\ (sample.one.prices >= 1 /\ sample.two.prices >= 1
              /\ Abs(sample.one.prices - sample.two.prices) <= 1) => result.value = TRUE
        /\ (sample.one.prices = 0 \/ sample.two.prices = 0) => result.value = FALSE

\* the price-count rule of line 476: the first page has a price and the counts
\* differ by at most 1
CountRule == sample.one.prices >= 1 /\ Abs(sample.one.prices - sample.two.prices) <= 1

MaxListLen == 2

\* the prices of the lists, in hundredths: 0, 95, 100, 106 and 200 rupees
MatchPrices == {0, 9500, 10000, 10600, 20000}
MatchLists == UNION {[1..n -> MatchPrices] : n \in 0..MaxListLen}

InitMatch ==
    /\ IdleAnalyzer
    /\ sample \in [a : MatchLists, b : MatchLists]
    /\ text = <<>>
    /\ result = NoResult

CallPriceListsMatch ==
    /\ result.fn = "none"
    /\ result' = [fn |-> "price_lists_match", value |-> price_lists_match(sample.a, sample.b)]
    /\ UNCHANGED <<data, inconsistencies, raised, calls, trace, sample, text,
                   pages_content, futures, contradictions>>

NextMatch == CallPriceListsMatch

SpecMatch == InitMatch /\ [][NextMatch]_vars

\* the number of positions of the list that hold v
Count(list, v) == Cardinality({k \in DOMAIN list : list[k] = v})

\* the list in ascending order
Ascending(list) ==
    CHOOSE s \in [DOMAIN list -> MatchPrices] :
        /\ \A v \in MatchPrices : Count(s, v) = Count(list, v)
        /\ \A k \in DOMAIN s : k > 1 => s[k - 1] <= s[k]

\* the elements at equal positions differ by at most 5% of the larger one
Within5Percent(a, b) == \A k \in DOMAIN a : 20 * Abs(a[k] - b[k]) <= Max(a[k], b[k])

\* C15 as stated: price_lists_match(a, b) is true if and only if a and b have
\* equal length and, sorted ascending, every pair of elements at the same
\* position differs by at most 5% relative to the larger of the two; lists of
\* different length never match.  (The right-hand side does not depend on the
\* order of a, of b, or on which list comes first.)
C15_Original_MatchIffWithin5Percent ==
    result.fn = "price_lists_match" =>
        result.value = IF Len(sample.a) = Len(sample.b)
                            /\ Within5Percent(Ascending(sample.a), Ascending(sample.b))
                       THEN "True" ELSE "False"


(***************************************************************************)
(* SpecContact: the contact phase run on documents of contact pages        *)
(***************************************************************************)
ContactPages == <<
    UrlPage(<<"/","a">>, <<"0","1","1","-","1","2","3","4","5","6","7">>),
    UrlPage(<<"/","b">>, <<"0","1","1","-","1","2","3","4","5","6","7"," ","0","7","7","-","1","2","3","4","5","6","7">>),
    \* matched by the first and by the third phone pattern
    UrlPage(<<"/","c">>, <<"0","1","1","2","3","4","5","6","7","8">>),
    UrlPage(<<"/","d">>, <<"0","1","1","-","7","6","5","4","3","2","1"," ","a","@","b",".","c","o">>),
    UrlPage(<<"/","e">>, <<"a","@","b",".","c","o"," ","c","@","d",".","c","o">>),
    UrlPage(<<"/","f">>, <<"e","@","f",".","c","o"," ","g","@","h",".","c","o">>),
    \* no contact at all
    UrlPage(<<"/","g">>, <<"c","a","l","l"," ","u","s">>) >>

InitContact == Loaded(ContactPages)

NextContact == analyze_contact_consistency

SpecContact == InitContact /\ [][NextContact]_vars

\* the records the last run of the contact phase appended
NewContactRecords ==
    SubSeq(inconsistencies.contact_info_discrepancies, trace.before + 1,
           Len(inconsistencies.contact_info_discrepancies))

NewContactRecordsOf(type) == SelectSeq(NewContactRecords, LAMBDA r : r.type = type)

\* what was extracted from the i-th page
PagePhoneNumbers(i) == extract_contact_info(AllText(data[i])).phone_numbers
PageEmailAddresses(i) == extract_contact_info(AllText(data[i])).email_addresses

\* the distinct phone strings and emails of all pages
DistinctPhones ==
    UNION {{PagePhoneNumbers(i)[k].number : k \in DOMAIN PagePhoneNumbers(i)} : i \in DOMAIN data}
DistinctEmails ==
    UNION {{PageEmailAddresses(i)[k].email : k \in DOMAIN PageEmailAddresses(i)} : i \in DOMAIN data}

\* the number of occurrences extracted from all pages
PhoneOccurrences == SumTo([i \in DOMAIN data |-> Len(PagePhoneNumbers(i))], Len(data))
EmailOccurrences == SumTo([i \in DOMAIN data |-> Len(PageEmailAddresses(i))], Len(data))

\* C16: the contact phase emits a multiple_phone_numbers record if and only if
\* more than 3 distinct phone strings occur across all pages (4 trigger, 3 do
\* not), and likewise a multiple_email_addresses record for more than 3 distinct
\* emails; the count of a record is the number of distinct values, its details
\* hold every extracted occurrence of every page, and a run emits at most one
\* record of each type.
C16_ContactAlarm ==
    trace.phase = "contact" =>
        /\ Len(NewContactRecordsOf("multiple_phone_numbers"))
             = (IF Cardinality(DistinctPhones) > 3 THEN 1 ELSE 0)
        /\ Len(NewContactRecordsOf("multiple_email_addresses"))
             = (IF Cardinality(DistinctEmails) > 3 THEN 1 ELSE 0)
        /\ Len(NewContactRecords) = Len(NewContactRecordsOf("multiple_phone_numbers"))
                                      + Len(NewContactRecordsOf("multiple_email_addresses"))
        /\ \A r \in DOMAIN NewContactRecords :
              NewContactRecords[r].type = "multiple_phone_numbers" =>
                 /\ NewContactRecords[r].count = Cardinality(DistinctPhones)
                 /\ NewContactRecords[r].numbers = DistinctPhones
                 /\ Len(NewContactRecords[r].details) = PhoneOccurrences
                 /\ \A i \in DOMAIN data : \A k \in DOMAIN PagePhoneNumbers(i) :
                       \E d \in DOMAIN NewContactRecords[r].details :
                          /\ NewContactRecords[r].details[d].url = data[i].url
                          /\ NewContactRecords[r].details[d].number = PagePhoneNumbers(i)[k].number
        /\ \A r \in DOMAIN NewContactRecords :
              NewContactRecords[r].type = "multiple_email_addresses" =>
                 /\ NewContactRecords[r].count = Cardinality(DistinctEmails)
                 /\ NewContactRecords[r].emails = DistinctEmails
                 /\ Len(NewContactRecords[r].details) = EmailOccurrences
                 /\ \A i \in DOMAIN data : \A k \in DOMAIN PageEmailAddresses(i) :
                       \E d \in DOMAIN NewContactRecords[r].details :
                          /\ NewContactRecords[r].details[d].url = data[i].url
                          /\ NewContactRecords[r].details[d].email = PageEmailAddresses(i)[k].email

\* C16 witness: a run over pages with exactly 4 distinct phone strings, one of
\* them occurring more than once, appended one multiple_phone_numbers record.
C16_Witness ==
    /\ trace.phase = "contact"
    /\ Cardinality(DistinctPhones) = 4
    /\ PhoneOccurrences > 4
    /\ Len(NewContactRecordsOf("multiple_phone_numbers")) = 1


(***************************************************************************)
(* SpecBare: the complete analysis over documents with pages that lack     *)
(* their fields                                                            *)
(***************************************************************************)
BarePage(url) == [url |-> url, has |-> {}, title |-> <<>>, text |-> <<>>, ocr_images |-> <<>>]

BarePages == <<
    BarePage(<<"/","e","n","/","a">>),
    BarePage(<<"/","s","i","/","a">>),
    BarePage(<<"/","b">>),
    UrlPage(<<"/","c">>, <<"R","s","."," ","1",",","0","0","0"," ","f","i","b","e","r"," ","1"," ","M","b","p","s">>),
    UrlPage(<<"/","d">>, <<"R","s","."," ","1",",","1","8","0"," ","f","i","b","e","r"," ","2"," ","M","b","p","s">>) >>

InitBare == Loaded(BarePages)

NextBare == analyze_all_inconsistencies

SpecBare == InitBare /\ [][NextBare]_vars

\* no page of the collection has a title, a text or OCR images
AllBare == \A i \in DOMAIN data : data[i].has \cap {"title", "text", "ocr_images"} = {}

\* C17: for a collection that is empty or whose pages lack the title, text and
\* ocr_images fields, analyze_all_inconsistencies runs the pricing, package,
\* translation and contact phases to completion without raising, and every
\* discrepancy list is empty afterwards.
C17_BareCollectionCompletes ==
    trace.phase = "all" /\ AllBare =>
        /\ raised = "none"
        /\ trace.run.phases = <<"pricing", "package", "translation", "contact">>
        /\ \A c \in DOMAIN inconsistencies : inconsistencies[c] = <<>>

\* C17 witness: the complete analysis ran over a collection of at least two
\* pages without fields.
C17_Witness ==
    /\ trace.phase = "all" /\ AllBare /\ Len(data) >= 2
    /\ trace.run.phases = <<"pricing", "package", "translation", "contact">>
    /\ raised = "none"


(***************************************************************************)
(* SpecSummary: the phases in any order, with generate_summary_stats       *)
(* called in between                                                       *)
(***************************************************************************)
SummaryPages == <<
    \* price Rs. 100 only
    UrlPage(<<"/","e","n","/","a">>, <<"p","r","i","c","e"," ","R","s","."," ","1","0","0"," ","o","n","l","y">>),
    \* (Sinhala) ru 150 ka ka
    UrlPage(<<"/","s","i","/","a">>, <<"U0DBB","U0DD4"," ","1","5","0"," ","U0D9A","U0D9A">>),
    \* Rs. 0
    UrlPage(<<"/","b">>, <<"R","s","."," ","0">>) >>

InitSummary == Loaded(SummaryPages)

\* a call of generate_summary_stats; `at` is the number of phase calls made
\* before it
CallGenerateSummaryStats ==
    /\ result.fn = "none"
    /\ result' = [fn |-> "generate_summary_stats", at |-> calls,
                  value |-> generate_summary_stats(data, inconsistencies)]
    /\ UNCHANGED <<data, inconsistencies, raised, calls, trace, sample, text,
                   pages_content, futures, contradictions>>

NextSummary ==
    \/ analyze_pricing_consistency
    \/ analyze_package_consistency
    \/ analyze_translation_consistency
    \/ analyze_contact_consistency
    \/ analyze_all_inconsistencies
    \/ CallGenerateSummaryStats

SpecSummary == InitSummary /\ [][NextSummary]_vars

\* the summary in `result` was taken in the present state of the analyzer
SummaryTaken == result.fn = "generate_summary_stats" /\ result.at = calls

\* the number of records in all the lists of the analyzer
RECURSIVE RecordTotal(_)
RecordTotal(categories) ==
    IF categories = {} THEN 0
    ELSE LET c == CHOOSE x \in categories : TRUE
         IN  Len(inconsistencies[c]) + RecordTotal(categories \ {c})

\* C18: in every state reached by any sequence of phases, generate_summary_stats
\* reports total_pages_analyzed equal to the number of loaded pages, each
\* per-category count equal to the length of that category's list, and
\* total_inconsistencies equal to the number of records in all lists.
C18_SummaryCounts ==
    SummaryTaken =>
        /\ result.value.total_pages_analyzed = Len(data)
        /\ \A c \in DOMAIN result.value.inconsistency_counts :
              result.value.inconsistency_counts[c] = Len(inconsistencies[c])
        /\ result.value.total_inconsistencies = RecordTotal(DOMAIN inconsistencies)

\* C18 witness: a summary taken after two phase calls that left records in
\* more than one list.
C18_Witness ==
    /\ SummaryTaken /\ calls = 2
    /\ Cardinality({c \in DOMAIN inconsistencies : inconsistencies[c] # <<>>}) >= 2
    /\ result.value.total_inconsistencies >= 2


(***************************************************************************)
(* SpecCategory: the pricing phase run on pages whose price contexts carry *)
(* category keywords                                                       *)
(***************************************************************************)
CategoryPages == <<
    UrlPage(<<"/","a">>, <<"f","i","b","e","r"," ","a","d","s","l"," ","R","s","."," ","1","0","0">>),
    UrlPage(<<"/","b">>, <<"m","o","b","i","l","e"," ","p","l","a","n"," ","R","s","."," ","1","0","0">>),
    UrlPage(<<"/","c">>, <<"A","D","S","L"," ","t","v"," ","R","s","."," ","1","0","0">>),
    UrlPage(<<"/","d">>, <<"p","e","o","t","v"," ","b","u","n","d","l","e"," ","R","s","."," ","1","0","0">>),
    UrlPage(<<"/","e">>, <<"P","l","a","n"," ","R","s","."," ","1","0","0"," ","1","0","0","/","-">>),
    UrlPage(<<"/","f">>, <<"R","s","."," ","1","0","0">>),
    UrlPage(<<"/","g">>, <<"m","e","g","a","l","i","n","e"," ","F","i","b","r","e"," ","R","s","."," ","1","0","0">>),
    UrlPage(<<"/","h">>, <<"L","T","E"," ","t","e","l","e","v","i","s","i","o","n"," ","R","s","."," ","1","0","0">>) >>

InitCategory == Loaded(CategoryPages)

NextCategory == analyze_pricing_consistency

SpecCategory == InitCategory /\ [][NextCategory]_vars

\* the keyword families in their priority order
Families == <<
    [category |-> "fiber",     words |-> { <<"f","i","b","e","r">>, <<"f","i","b","r","e">>, <<"f","t","t","x">> }],
    [category |-> "adsl",      words |-> { <<"a","d","s","l">>, <<"m","e","g","a","l","i","n","e">> }],
    [category |-> "4g_mobile", words |-> { <<"4","g">>, <<"l","t","e">>, <<"m","o","b","i","l","e">> }],
    [category |-> "tv",        words |-> { <<"p","e","o","t","v">>, <<"t","v">>, <<"t","e","l","e","v","i","s","i","o","n">> }],
    [category |-> "package",   words |-> { <<"p","a","c","k","a","g","e">>, <<"p","l","a","n">>, <<"b","u","n","d","l","e">> }] >>

\* the families with a keyword in the context, letter case ignored
FamiliesIn(context) ==
    {f \in DOMAIN Families : \E w \in Families[f].words : Occurrences(Lower(context), w) # {}}

\* the category of the family of highest priority found in the context
FirstFamily(context) ==
    IF FamiliesIn(context) = {} THEN "unknown"
    ELSE Families[Least(FamiliesIn(context))].category

\* the prices extracted from all pages of the document
ExtractedPrices == SumTo([i \in DOMAIN data |-> Len(extract_prices(AllText(data[i])))], Len(data))

\* the prices filed under the categories
FiledPrices ==
    SumTo([k \in DOMAIN trace.run.outcomes |-> Len(trace.run.outcomes[k].prices)],
          Len(trace.run.outcomes))

\* C19: the category of a price is that of the first keyword family, in the
\* order fiber, adsl, 4g_mobile, tv, package, with a keyword in its context, and
\* 'unknown' when no family has one ('fiber' with 'adsl' gives 'fiber', 'mobile'
\* with 'plan' gives '4g_mobile'); every price is filed under exactly one
\* category.
C19_CategoryPriority ==
    trace.phase = "pricing" =>
        /\ \A k \in DOMAIN trace.run.outcomes : \A j \in DOMAIN trace.run.outcomes[k].prices :
              /\ trace.run.outcomes[k].category
                   = FirstFamily(trace.run.outcomes[k].prices[j].context)
              /\ trace.run.outcomes[k].prices[j].context = <<"f","i","b","e","r"," ","a","d","s","l"," ","R","s","."," ","1","0","0">>
                   => trace.run.outcomes[k].category = "fiber"
              /\ trace.run.outcomes[k].prices[j].context = <<"m","o","b","i","l","e"," ","p","l","a","n"," ","R","s","."," ","1","0","0">>
                   => trace.run.outcomes[k].category = "4g_mobile"
        /\ \A k, l \in DOMAIN trace.run.outcomes :
              k # l => trace.run.outcomes[k].category # trace.run.outcomes[l].category
        /\ FiledPrices = ExtractedPrices

\* C19 witness: a run filed the price of 'fiber adsl Rs. 100' under fiber, that
\* of 'mobile plan Rs. 100' under 4g_mobile and that of 'Rs. 100' under unknown.
C19_Witness ==
    /\ trace.phase = "pricing"
    /\ \E k \in DOMAIN trace.run.outcomes :
          /\ trace.run.outcomes[k].category = "fiber"
          /\ \E j \in DOMAIN trace.run.outcomes[k].prices :
                trace.run.outcomes[k].prices[j].context = <<"f","i","b","e","r"," ","a","d","s","l"," ","R","s","."," ","1","0","0">>
    /\ \E k \in DOMAIN trace.run.outcomes :
          /\ trace.run.outcomes[k].category = "4g_mobile"
          /\ \E j \in DOMAIN trace.run.outcomes[k].prices :
                trace.run.outcomes[k].prices[j].context = <<"m","o","b","i","l","e"," ","p","l","a","n"," ","R","s","."," ","1","0","0">>
    /\ \E k \in DOMAIN trace.run.outcomes :
          /\ trace.run.outcomes[k].category = "unknown"
          /\ trace.run.outcomes[k].prices # <<>>


(***************************************************************************)
(* SpecContext: extract_prices applied to a text with two prices and       *)
(* filling around them                                                     *)
(***************************************************************************)
\* the longest filling between the two prices: with it the text is longer than
\* the window around either price
MaxFill == 44

Fills == {0, 3}
Gaps == {1, 20, MaxFill}
SecondNumerals == { <<"1","0","0">>, <<"2","0","0">>, <<"1",",","0","0","0">> }
FirstMarkers == { <<"R","s","."," ">>, <<"R","s",".">> }

Fill(n) == [i \in 1..n |-> "x"]

\* filling, marker, '100', filling, 'LKR ', the second numeral, filling
ContextText(c) ==
    Fill(c.lead) \o c.marker \o <<"1","0","0">> \o Fill(c.gap) \o <<"L","K","R"," ">> \o c.second \o Fill(c.tail)

InitContext ==
    /\ IdleAnalyzer
    /\ sample \in [lead : Fills, marker : FirstMarkers, gap : Gaps,
                   second : SecondNumerals, tail : Fills]
    /\ text = ContextText(sample)
    /\ result = NoResult

NextContext == CallExtractPrices

SpecContext == InitContext /\ [][NextContext]_vars

\* the offsets at which the two numerals are matched
FirstAt  == sample.lead + Len(sample.marker)
SecondAt == FirstAt + 3 + sample.gap + 4

\* the text from 50 characters before offset at to 50 characters after the n
\* characters matched there, with '...' on each side where text was cut off
Window(at, n) ==
    (IF at - ContextLength > 0 THEN Ellipsis ELSE <<>>)
        \o Slice(text, Max(0, at - ContextLength), Min(Len(text), at + n + ContextLength))
        \o (IF at + n + ContextLength < Len(text) THEN Ellipsis ELSE <<>>)

\* C20 as stated: the context of every extracted price is the window of the
\* text around the position of its own match (surrounding whitespace removed),
\* at most 50 characters before and after it, with '...' on a side exactly when
\* text was cut off there; its length never exceeds len(match) + 100 + 6.
C20_Original_WindowAroundOwnMatch ==
    result.fn = "extract_prices" =>
        /\ Len(result.value) = 2
        /\ result.value[1].original = <<"1","0","0">>
        /\ result.value[1].context = Strip(Window(FirstAt, 3))
        /\ result.value[2].original = sample.second
        /\ result.value[2].context = Strip(Window(SecondAt, Len(sample.second)))
        /\ \A k \in DOMAIN result.value :
              Len(result.value[k].context)
                  <= Len(result.value[k].original) + 2 * ContextLength + 2 * Len(Ellipsis)


(***************************************************************************)
(* The records of the translation phase (SpecTranslation)                  *)
(***************************************************************************)
\* the records the last call of analyze_translation_consistency appended
NewTranslationRecords ==
    SubSeq(inconsistencies.translation_mismatches, trace.before + 1,
           Len(inconsistencies.translation_mismatches))

\* a record of the type for the pages url1 and url2 is among the records
PairRecord(records, type, url1, url2) ==
    \E k \in DOMAIN records :
        /\ records[k].type = type
        /\ records[k].url1 = url1
        /\ records[k].url2 = url2

\* the pair (a, b) is an english and a sinhala page that the pairer accepts
Accepted(infos, a, b) ==
    /\ infos[a].language = "english"
    /\ infos[b].language = "sinhala"
    /\ might_be_translations(infos[a].url, infos[b].url, infos[a], infos[b])

FeatureSet(info) == SeqSet(FeatureNames(info.package_details.features))

\* the claimed records of the pairs, for the page infos and the records of a run
PairRecordsAsClaimed(infos, records) ==
    \A a, b \in DOMAIN infos :
        /\ PairRecord(records, "price_mismatch_between_languages", infos[a].url, infos[b].url)
             <=> /\ Accepted(infos, a, b)
                 /\ infos[a].prices # <<>>
                 /\ infos[b].prices # <<>>
                 /\ price_lists_match(Values(infos[a].prices), Values(infos[b].prices)) = "False"
        /\ PairRecord(records, "feature_mismatch_between_languages", infos[a].url, infos[b].url)
             <=> /\ Accepted(infos, a, b)
                 /\ FeatureSet(infos[a]) # {}
                 /\ FeatureSet(infos[b]) # {}
                 /\ FeatureSet(infos[a]) # FeatureSet(infos[b])

\* C21 as stated: after the translation phase, for every english page and
\* sinhala page the pairer accepts, a price_mismatch_between_languages record
\* was emitted iff both have a price and price_lists_match is false, and a
\* feature_mismatch_between_languages record iff both have a feature and the
\* feature sets differ; no record was emitted for any other pair of pages.
C21_Original_PairRecordsIffMismatch ==
    trace.phase = "translation" => PairRecordsAsClaimed(PageInfos(data), NewTranslationRecords)


(***************************************************************************)
(* SpecMixed: the translation phase over pages that show an English and a  *)
(* Sinhala price more than a context length apart                          *)
(***************************************************************************)
DotsFifty == [i \in 1..ContextLength |-> "."]

MixedPages == <<
    \* Rs. 100 (50 dots) (Sinhala) ru 200
    UrlPage(<<"/","m","1">>, <<"R","s","."," ","1","0","0">> \o DotsFifty \o <<"U0DBB","U0DD4"," ","2","0","0">>),
    \* Rs. 100 (50 dots) (Sinhala) ru 103
    UrlPage(<<"/","m","2">>, <<"R","s","."," ","1","0","0">> \o DotsFifty \o <<"U0DBB","U0DD4"," ","1","0","3">>),
    \* Rs. 0 .. (50 dots) (Sinhala) ru 0.00
    UrlPage(<<"/","m","3">>, <<"R","s","."," ","0",".",".">> \o DotsFifty \o <<"U0DBB","U0DD4"," ","0",".","0","0">>),
    \* price Rs. 100 only
    UrlPage(<<"/","e","n","/","a">>, <<"p","r","i","c","e"," ","R","s","."," ","1","0","0"," ","o","n","l","y">>),
    \* (Sinhala) ru 106 ka ka
    UrlPage(<<"/","s","i","/","a">>, <<"U0DBB","U0DD4"," ","1","0","6"," ","U0D9A","U0D9A">>),
    \* ab (Sinhala) ka ka ru 5
    UrlPage(<<"/","m","4">>, <<"a","b"," ","U0D9A","U0D9A"," ","U0DBB","U0DD4"," ","5">>) >>

InitMixed == Loaded(MixedPages)

NextMixed == analyze_translation_consistency

SpecMixed == InitMixed /\ [][NextMixed]_vars

\* the values of the prices whose context the short-context variant gives the language
ValuesIn(prices, language) ==
    Values(SelectSeq(prices, LAMBDA q : detect_language(q.context) = language))

\* how many internal_language_price_mismatch records of the page are among the records
InternalRecords(records, url) ==
    Cardinality({k \in DOMAIN records :
                    /\ records[k].type = "internal_language_price_mismatch"
                    /\ records[k].url = url})

\* the claimed number of records of each page, for the page infos and records of a run
InternalRecordsAsClaimed(infos, records) ==
    \A i \in DOMAIN infos :
        InternalRecords(records, infos[i].url) =
            IF /\ infos[i].language = "mixed"
               /\ ValuesIn(infos[i].prices, "english") # <<>>
               /\ ValuesIn(infos[i].prices, "sinhala") # <<>>
               /\ price_lists_match(ValuesIn(infos[i].prices, "english"),
                                    ValuesIn(infos[i].prices, "sinhala")) = "False"
            THEN 1 ELSE 0

\* C22 as stated: after the translation phase, every page of the mixed bucket
\* that has a price with an english context and a price with a sinhala context
\* whose value lists fail price_lists_match has exactly one
\* internal_language_price_mismatch record, and every other page, the pages
\* of the english and sinhala buckets included, has none.
C22_Original_InternalRecordIffMismatch ==
    trace.phase = "translation" =>
        InternalRecordsAsClaimed(PageInfos(data), NewTranslationRecords)


(***************************************************************************)
(* SpecPlain: extract_prices applied to one currency marker and one        *)
(* numeral of four or more digits without separators                       *)
(***************************************************************************)
\* the most digits of a plain numeral
MaxPlainDigits == 5

PlainDigitChars == {"0", "2", "5"}
PlainNumerals ==
    UNION {{ds \in [1..n -> PlainDigitChars] : ds[1] # "0"} : n \in 4..MaxPlainDigits}

PlainText(p) ==
    IF PriceMarkers[p.marker].side = "before"
    THEN PriceMarkers[p.marker].chars \o p.digits
    ELSE p.digits \o PriceMarkers[p.marker].chars

InitPlain ==
    /\ IdleAnalyzer
    /\ sample \in [marker : DOMAIN PriceMarkers, digits : PlainNumerals]
    /\ text = PlainText(sample)
    /\ result = NoResult

NextPlain == CallExtractPrices

SpecPlain == InitPlain /\ [][NextPlain]_vars

\* C23 as stated: for a text made of one supported marker and one numeral of
\* four or more digits without thousands separators, extract_prices returns a
\* fact whose value is the whole numeral, and no fact whose value is that of
\* a prefix or suffix of its digits ('Rs. 2500' and '2500/-' give 2500.0).
C23_Original_PlainNumeralWhole ==
    result.fn = "extract_prices" =>
        /\ result.value # <<>>
        /\ \A k \in DOMAIN result.value : result.value[k].value = 100 * PlaceValue(sample.digits)


(***************************************************************************)
(* The order of the prices and the clusters (SpecPricing)                  *)
(***************************************************************************)
\* the prices of a category in the order the clustering loop takes them
PriceValues(prices) == [i \in DOMAIN prices |-> prices[i].price]

\* the sizes of the clusters in creation order
ClusterSizes(unique_prices) == [g \in DOMAIN unique_prices |-> Len(unique_prices[g])]

\* the first two prices of a list of three exchanged
SwapFirstTwo(prices) == <<prices[2], prices[1], prices[3]>>

\* C24: clustering depends on the order of the prices: the prices 1000, 1090,
\* 1180 of one category taken in this order make the two clusters {1000, 1090}
\* and {1180}, and taken as 1090, 1000, 1180 make the single cluster of
\* representative 1090; the clustering loop applied to the first list with its
\* first two prices exchanged gives a different number of clusters than the
\* run gave.
C24_ClusteringDependsOnOrder ==
    PricingCall => \A k \in DOMAIN trace.run.outcomes :
        LET o == trace.run.outcomes[k]
        IN  /\ PriceValues(o.prices) = <<100000, 109000, 118000>>
                => /\ Representatives(o.unique_prices) = <<100000, 118000>>
                   /\ ClusterSizes(o.unique_prices) = <<2, 1>>
                   /\ Len(ClusterPrices(SwapFirstTwo(o.prices), 3).unique_prices)
                        # Len(o.unique_prices)
            /\ PriceValues(o.prices) = <<109000, 100000, 118000>>
                => /\ Representatives(o.unique_prices) = <<109000>>
                   /\ ClusterSizes(o.unique_prices) = <<3>>

\* C24 witness: a run over the prices 1000, 1090, 1180 in this order made two
\* clusters where the order 1090, 1000, 1180 makes one.
C24_Witness ==
    /\ PricingCall
    /\ \E k \in DOMAIN trace.run.outcomes :
         LET o == trace.run.outcomes[k]
         IN  /\ PriceValues(o.prices) = <<100000, 109000, 118000>>
             /\ Len(o.unique_prices) = 2
             /\ Len(ClusterPrices(SwapFirstTwo(o.prices), 3).unique_prices) = 1


(***************************************************************************)
(* The order of the phases (SpecSummary)                                   *)
(***************************************************************************)
PhaseOrder == <<"pricing", "package", "translation", "contact">>

\* what each phase appends to its list over the document and whether it raises
PhaseResults(pricing, package, steps, contact) ==
    [pricing     |-> [records |-> OutcomeRecords(pricing), raised |-> OutcomeRaised(pricing)],
     package     |-> [records |-> package, raised |-> FALSE],
     translation |-> [records |-> OutcomeRecords(steps), raised |-> OutcomeRaised(steps)],
     contact     |-> [records |-> contact, raised |-> FALSE]]

NoLists == [pricing |-> <<>>, package |-> <<>>, translation |-> <<>>, contact |-> <<>>]

\* the lists after the phases were called in the order given, the calls ending
\* with the first one that raises
RECURSIVE RunInOrder(_, _, _)
RunInOrder(results, order, lists) ==
    IF order = <<>> THEN lists
    ELSE IF results[Head(order)].raised
    THEN [lists EXCEPT ![Head(order)] = @ \o results[Head(order)].records]
    ELSE RunInOrder(results, Tail(order),
                    [lists EXCEPT ![Head(order)] = @ \o results[Head(order)].records])

\* the orders in which the four phases can be called
PhaseOrders ==
    {o \in [1..4 -> SeqSet(PhaseOrder)] : \A i, j \in 1..4 : i # j => o[i] # o[j]}

\* the lists a complete analysis appended are those of every order of the phases
SameInEveryOrder(results) ==
    \A o \in PhaseOrders :
        RunInOrder(results, o, NoLists)
            = [pricing |-> trace.run.pricing, package |-> trace.run.package,
               translation |-> trace.run.translation, contact |-> trace.run.contact]

\* the phases a complete analysis entered are the first ones of the fixed order
FixedOrder ==
    /\ Len(trace.run.phases) <= 4
    /\ trace.run.phases = SubSeq(PhaseOrder, 1, Len(trace.run.phases))

IsPrefix(s, t) == Len(s) <= Len(t) /\ SubSeq(t, 1, Len(s)) = s

ListOf == [pricing     |-> "pricing_discrepancies",
           package     |-> "package_details_discrepancies",
           translation |-> "translation_mismatches",
           contact     |-> "contact_info_discrepancies"]

\* a step keeps the page data and every record appended so far, and the call
\* of one phase changes no list but the list of the phase
AppendOnly ==
    /\ data' = data
    /\ \A c \in DOMAIN inconsistencies : IsPrefix(inconsistencies[c], inconsistencies'[c])
    /\ inconsistencies'.service_feature_discrepancies = <<>>
    /\ \A ph \in SeqSet(PhaseOrder) :
          calls' = calls + 1 /\ trace'.phase = ph
              => \A c \in DOMAIN inconsistencies :
                    c # ListOf[ph] => inconsistencies'[c] = inconsistencies[c]

\* C25 as stated: a complete analysis runs the phases in the fixed order
\* pricing, package, translation, contact; every phase only appends to the
\* list of its own category and leaves the other lists, the records appended
\* before and the page data as they are; and the lists a complete analysis
\* leaves are those the four phases leave when called in any other order.
C25_Original_PhasesOrderInsensitive ==
    /\ [](trace.phase = "all"
            => /\ FixedOrder
               /\ SameInEveryOrder(PhaseResults(PricingOutcomes(data).outcomes,
                                                PackageOutcomes(data).records,
                                                TranslationOutcomes(data).steps,
                                                ContactOutcomes(data).records)))
    /\ [][AppendOnly]_vars


(***************************************************************************)
(* SpecCrawl: SLTWebsiteCrawler.crawl_website, the pages fetched by the      *)
(* workers of the executor and merged by the thread that called it           *)
(***************************************************************************)
\* the most URLs discover_urls finds
MaxUrls == 6

\* ThreadPoolExecutor(max_workers=5)
max_workers == 5

SiteTitles == << <<"F","i","b","e","r"," ","P","l","a","n","s">>, <<"F","i","b","r","e"," ","p","l","a","n","s"," ","S","L","T">>, <<"f","i","b","e","r"," ","p","l","a","n","s">> >>
SitePrices == << <<<<"R","s","."," ","1","0","0">>>>, <<<<"R","s","."," ","2","0","0">>>>, <<>>, <<<<"R","s","."," ","1","0","0">>, <<"R","s","."," ","3","0","0">>>> >>

\* the PageContent that get_page_content returns for the u-th URL
SitePage(u) ==
    [url    |-> PageUrl(u),
     title  |-> SiteTitles[(u % Len(SiteTitles)) + 1],
     prices |-> SitePrices[(u % Len(SitePrices)) + 1]]

analyzer_vars == <<data, inconsistencies, raised, calls, trace, sample, text, result>>

\* the URLs discover_urls found, in the order the set gives them, and those
\* for which get_page_content returns None
InitCrawl ==
    /\ IdleAnalyzer
    /\ sample \in [all_urls : {1..n : n \in 1..MaxUrls}, failing : {{}, {2}}]
    /\ text = <<>>
    /\ result = NoResult

\* line 214: a future is submitted for every URL
Submit ==
    /\ futures = <<>>
    /\ futures' = [u \in sample.all_urls |-> "pending"]
    /\ UNCHANGED <<analyzer_vars, pages_content, contradictions>>

Pending == {u \in DOMAIN futures : futures[u] = "pending"}
Running == {u \in DOMAIN futures : futures[u] = "running"}

\* a free worker takes the work item that was submitted first
WorkerStart(u) ==
    /\ u \in Pending
    /\ \A v \in Pending : u <= v
    /\ Cardinality(Running) < max_workers
    /\ futures' = [futures EXCEPT ![u] = "running"]
    /\ UNCHANGED <<analyzer_vars, pages_content, contradictions>>

\* get_page_content returns in a worker
WorkerFinish(u) ==
    /\ u \in Running
    /\ futures' = [futures EXCEPT ![u] = "finished"]
    /\ UNCHANGED <<analyzer_vars, pages_content, contradictions>>

\* lines 216-226: as_completed yields a finished future and the loop body
\* appends its page unless it is None
Merge(u) ==
    /\ u \in DOMAIN futures
    /\ futures[u] = "finished"
    /\ futures' = [futures EXCEPT ![u] = "merged"]
    /\ pages_content' = IF u \in sample.failing THEN pages_content
                        ELSE Append(pages_content, SitePage(u))
    /\ UNCHANGED <<analyzer_vars, contradictions>>

\* crawl_website has returned
Crawled == futures # <<>> /\ \A u \in DOMAIN futures : futures[u] = "merged"

\* str.split(): the words between runs of whitespace
RECURSIVE SplitFrom(_, _, _)
SplitFrom(t, i, word) ==
    IF i > Len(t) THEN (IF word = <<>> THEN <<>> ELSE <<word>>)
    ELSE IF IsSpace(t[i])
    THEN (IF word = <<>> THEN <<>> ELSE <<word>>) \o SplitFrom(t, i + 1, <<>>)
    ELSE SplitFrom(t, i + 1, Append(word, t[i]))
Split(t) == SplitFrom(t, 1, <<>>)

\* sorted(set of str)
RECURSIVE SortedWords(_)
SortedWords(words) ==
    IF words = {} THEN <<>>
    ELSE LET w == CHOOSE x \in words : \A y \in words \ {x} : StrLess(x, y)
         IN  <<w>> \o SortedWords(words \ {w})

\* line 419: set(page.title.lower().split())
TitleWords(page) == SeqSet(Split(Lower(page.title)))

\* lines 421-426: what the inner loop body appends for page a and other page b
GroupAppend(pages, a, b, common_words) ==
    IF pages[a].url # pages[b].url /\ Cardinality(common_words) >= 2
    THEN <<[title_key |-> Join(SortedWords(common_words), <<" ">>), page |-> a]>>
    ELSE <<>>

\* lines 417-426: the appends to title_groups in the order the loops make them
GroupAppends(pages) ==
    Flatten([a \in DOMAIN pages |->
        Flatten([b \in DOMAIN pages |->
            GroupAppend(pages, a, b, TitleWords(pages[a]) \cap TitleWords(pages[b]))])])

\* title_groups[title_key]: the positions in pages_content of the pages appended
TitleGroup(appends, title_key) ==
    LET own == SelectSeq(appends, LAMBDA x : x.title_key = title_key)
    IN  [k \in DOMAIN own |-> own[k].page]

\* lines 434-445 for page1 = pages[i] and page2 = pages[j] of a group
TitleContradiction(title_key, page1, page2) ==
    IF SeqSet(page1.prices) # SeqSet(page2.prices) /\ page1.prices # <<>> /\ page2.prices # <<>>
    THEN <<[type |-> "similar_title_price_contradiction",
            page1 |-> page1.url, page2 |-> page2.url,
            content1 |-> page1.prices, content2 |-> page2.prices,
            severity |-> "high",
            \* 'Different prices on similarly titled pages: ' and the key
            description |-> title_key]>>
    ELSE <<>>

\* lines 429-445 for one key of title_groups
GroupContradictions(pages, title_key, group) ==
    IF Len(group) > 1
    THEN Flatten([i \in DOMAIN group |->
            Flatten([j \in DOMAIN group |->
                IF j > i THEN TitleContradiction(title_key, pages[group[i]], pages[group[j]])
                ELSE <<>>])])
    ELSE <<>>

\* lines 428-445: the loop over title_groups.items()
TitleContradictions(pages, appends, keys) ==
    Flatten([k \in DOMAIN keys |->
        GroupContradictions(pages, keys[k], TitleGroup(appends, keys[k]))])

TitleRun(pages, appends) ==
    TitleContradictions(pages, appends, KeyOrder([k \in DOMAIN appends |-> appends[k].title_key], {}))

\* SLTWebsiteCrawler._find_title_contradictions, called once the crawl has returned
_find_title_contradictions ==
    /\ Crawled
    /\ result.fn = "none"
    /\ contradictions' = contradictions \o TitleRun(pages_content, GroupAppends(pages_content))
    /\ result' = [fn |-> "_find_title_contradictions", value |-> Len(contradictions)]
    /\ UNCHANGED <<data, inconsistencies, raised, calls, trace, sample, text,
                   pages_content, futures>>

NextCrawl ==
    \/ Submit
    \/ \E u \in 1..MaxUrls : WorkerStart(u)
    \/ \E u \in 1..MaxUrls : WorkerFinish(u)
    \/ \E u \in 1..MaxUrls : Merge(u)
    \/ _find_title_contradictions

SpecCrawl == InitCrawl /\ [][NextCrawl]_vars

\* the pages of the URLs in the order the URLs were submitted
RECURSIVE PagesInOrder(_, _)
PagesInOrder(n, failing) ==
    IF n = 0 THEN <<>>
    ELSE PagesInOrder(n - 1, failing) \o (IF n \in failing THEN <<>> ELSE <<SitePage(n)>>)

\* C26 as stated: when crawl_website has returned, pages_content holds the
\* pages in one fixed order, the order in which their URLs were submitted,
\* whatever the order in which the workers finished.
C26_Original_MergedInFixedOrder ==
    Crawled => pages_content = PagesInOrder(Cardinality(sample.all_urls), sample.failing)


(***************************************************************************)
(* The verdicts of the short-context classifier (SpecLang)                 *)
(***************************************************************************)
\* C27: detect_language never returns 'other': its verdict is one of empty,
\* no_text, english, sinhala and mixed, and for a text with at least one
\* counted letter in which neither ratio exceeds 0.7 both ratios exceed 0.1
\* and the verdict is 'mixed'.
C27_NeverOther ==
    result.fn = "detect_language" =>
        LET s == SinhalaCount(text)
            e == EnglishCount(text)
        IN  /\ result.value # "other"
            /\ result.value \in {"empty", "no_text", "english", "sinhala", "mixed"}
            /\ s + e > 0 /\ 10 * s <= 7 * (s + e) /\ 10 * e <= 7 * (s + e)
                 => /\ 10 * s > s + e
                    /\ 10 * e > s + e
                    /\ result.value = "mixed"

\* C27 witness: a text of 3 Sinhala and 7 ASCII letters, the English ratio
\* being exactly 0.7, was classified 'mixed'.
C27_Witness ==
    /\ result.fn = "detect_language"
    /\ SinhalaCount(text) = 3 /\ EnglishCount(text) = 7
    /\ result.value = "mixed"


(***************************************************************************)
(* The pairing decision with the pages exchanged (SpecPairing)             *)
(***************************************************************************)
\* C28 as stated: the pairing decision is symmetric: might_be_translations of
\* two pages is its value for the same two pages in the other order.
C28_Original_PairingSymmetric ==
    result.fn = "might_be_translations" =>
        result.value = might_be_translations(
            PairingUrls[sample.two.url], PairingUrls[sample.one.url],
            PairingInfo(sample.two.prices, PairingFeatures[sample.two.features]),
            PairingInfo(sample.one.prices, PairingFeatures[sample.one.features]))


(***************************************************************************)
(* The clusters as a partition of the facts of a category (SpecPricing)    *)
(***************************************************************************)
\* the places (cluster, position in the cluster) at which the n-th fact of the
\* category stands
PlacesOf(unique_prices, n) ==
    {c \in UNION {{<<g, j>> : j \in DOMAIN unique_prices[g]} : g \in DOMAIN unique_prices} :
        unique_prices[c[1]][c[2]].pos = n}

\* the occurrences of a record are the clusters in creation order, and their
\* counts add up to the number of facts
OccurrencesOfClusters(record, unique_prices, facts) ==
    /\ Len(record.occurrences) = Len(unique_prices)
    /\ \A g \in DOMAIN unique_prices :
          /\ record.occurrences[g].url = unique_prices[g][1].url
          /\ record.occurrences[g].count = Len(unique_prices[g])
    /\ SumTo([g \in DOMAIN record.occurrences |-> record.occurrences[g].count],
             Len(record.occurrences)) = facts

\* C29 as stated: after the pricing phase, in every category that was
\* clustered every price fact stands in exactly one cluster and no cluster is
\* empty, and every record emitted for the category has one occurrence per
\* cluster, in creation order, whose counts add up to the number of price
\* facts of the category.
C29_Original_ClustersPartitionFacts ==
    PricingCall => \A k \in DOMAIN trace.run.outcomes :
        LET o == trace.run.outcomes[k]
        IN  o.clustered =>
            /\ \A g \in DOMAIN o.unique_prices : o.unique_prices[g] # <<>>
            /\ \A n \in DOMAIN o.prices : Cardinality(PlacesOf(o.unique_prices, n)) = 1
            /\ \A r \in DOMAIN NewRecordsOf(o.category) :
                  OccurrencesOfClusters(NewRecordsOf(o.category)[r], o.unique_prices,
                                        Len(o.prices))


(***************************************************************************)
(* The records of the title analysis (SpecCrawl)                           *)
(***************************************************************************)
\* the records the call of _find_title_contradictions appended
NewContradictions == SubSeq(contradictions, result.value + 1, Len(contradictions))

\* C30 as stated: after _find_title_contradictions no record has page1 equal
\* to page2, and no two similar_title_price_contradiction records have the
\* same two pages, in either order, and the same title key.
C30_Original_EachPairOncePerKey ==
    result.fn = "_find_title_contradictions" =>
        /\ \A k \in DOMAIN NewContradictions :
              NewContradictions[k].page1 # NewContradictions[k].page2
        /\ \A k, l \in DOMAIN NewContradictions :
              k # l => ~ /\ {NewContradictions[k].page1, NewContradictions[k].page2}
                              = {NewContradictions[l].page1, NewContradictions[l].page2}
                         /\ NewContradictions[k].description = NewContradictions[l].description

====
